---- MODULE Spec2Model ----
(***************************************************************************)
(* Reverse Challenge System: the work dispatch and delivery pipeline.      *)
(*                                                                         *)
(*   SpecSolver  the Solver's queue store, dispatcher, worker pool and     *)
(*               callback sender, with the Challenger's result store at    *)
(*               the far end of the callback (internal/solver/worker,      *)
(*               pkg/db/solver.go, internal/solver/service).               *)
(*   LiveSolver  SpecSolver with the fairness of the Go scheduler.         *)
(*   SpecRetry   one iteration of sendCallbackWithRetry, with              *)
(*               WorkerPool.shouldRetry, as a pure function.               *)
(*   SpecChal    the Challenger's HTTP server: auth middleware and the     *)
(*               callback receiver, one task per request.                  *)
(*   SpecAuth    the auth middleware of either service over its nonce      *)
(*               store, with the clock and the nonce cleanup task.         *)
(*   SpecIntake  solve requests to the Solver, handled one after another.  *)
(*   SpecRace    solve requests whose handlers overlap.                    *)
(*   SpecVerify  VerifySignature over the values of its input.             *)
(*   SpecNonce   the auth middleware on requests that share a nonce.       *)
(*   SpecSize    the body limit in front of the middleware.                *)
(*   SpecJudge   the validator and is_correct of a stored result.          *)
(*   SpecFault   the callback receiver with failing side effects.          *)
(*   SpecSecret  what the Challenger sends to the Solver.                  *)
(*   SpecBackoff SpecSolver with one worker on a millisecond clock and     *)
(*               the delays of calculateBackoffDelay.                      *)
(*   SpecRestart the worker pool started on a store left by a process      *)
(*               that stopped between two attempts.                        *)
(*   SpecOrder   one worker, the first write of processChallenge free to   *)
(*               fail.                                                     *)
(*   SpecDue     one call of GetPendingChallenges, as a pure function.     *)
(*   SpecSkewZero SpecAuth for a Solver configured with a clock skew of 0.  *)
(*   SpecLookup  the callback receiver over a challenges table whose       *)
(*               reads can fail.                                           *)
(*   SpecStop    SpecSolver with WorkerPool.Stop.                          *)
(*   SpecAgain   solve intake and one worker, for requests that repeat a   *)
(*               problem id.                                               *)
(*   SpecURL     solve intake over callback URLs, in either USE_NGROK      *)
(*               mode.                                                     *)
(*                                                                         *)
(* All specifications share the variables; each leaves the other           *)
(* subsystem's variables unchanged.                                        *)
(***************************************************************************)
EXTENDS Integers, Sequences, FiniteSets, Bags, TLC

VARIABLES
    pending,      \* Solver table pending_challenges: problem id -> row
    jobQueue,     \* WorkerPool.jobQueue: buffered channel of row snapshots
    wk,           \* one record per worker goroutine
    enrolls,      \* number of rows ever inserted (orders received_at)
    ticks,        \* dispatcher ticks left to explore (-1: no limit)
    attempts,     \* history: callback deliveries attempted per work item
    lost,         \* number of callback responses lost after the Challenger stored
    results,      \* Challenger table results: a bag of rows
    webhooks,     \* Challenger table webhooks: a bag of audit rows
    seen,         \* table seen_nonces: nonce -> seen_at
    req,          \* HTTP requests at a server, one task per request
    now,          \* the server's clock, in units of the clock skew tolerance
    svc,          \* which service the server is: "challenger" or "solver"
    sent,         \* the solve request bodies the Challenger has sent
    retryIn,      \* SpecRetry: the (attempt, statusCode, err) of an iteration;
                  \* SpecDue: the limit of a GetPendingChallenges call;
                  \* SpecURL: the USE_NGROK of the configuration
    retryOut,     \* SpecRetry: what shouldRetry returned; SpecDue: the ids of
                  \* the rows GetPendingChallenges returned
    quit          \* WorkerPool.quit and workerQuit: closed (Stop was called);
                  \* queued (history): how many of the items that were in
                  \* jobQueue at that moment no worker has received

solverVars == <<pending, jobQueue, wk, enrolls, ticks, attempts, lost>>
chalVars   == <<webhooks, seen, req, now, svc, sent>>
retryVars  == <<retryIn, retryOut>>
vars == <<pending, jobQueue, wk, enrolls, ticks, attempts, lost, results,
          webhooks, seen, req, now, svc, sent, retryIn, retryOut, quit>>

---------------------------------------------------------------------------
(* Bounds of the model *)

\* dispatcher ticks explored in SpecSolver
MaxTicks == 2
\* solve requests that enroll a row
MaxEnrolls == 1
\* longest retry delay, in clock steps
DelayTicks == 1
\* the history counter `attempts` saturates here
MaxSends == 7
\* responses the network loses after the Challenger handled the request
MaxLost == 1

ProblemIds == {"p1", "p2"}
\* worker goroutines of the pool (SOLVER_WORKER_COUNT)
WorkerIds == {"w1", "w2"}
NoId == "none"

---------------------------------------------------------------------------
(* Program constants *)

MaxRetryAttempts == 6

\* NewWorkerPool: workers, and make(chan *models.PendingChallenge, workers*2)
Workers == DOMAIN wk
\* the problem ids the solve requests of a run name
Problems == DOMAIN pending
QueueCap == 2 * Cardinality(Workers)

---------------------------------------------------------------------------
(* pkg/db/solver.go: the queue store *)

\* a callback URL scheme://host rest, as url.Parse splits it (rest: what
\* follows the host); NoURL is the empty string
NoURL == [scheme |-> "", host |-> "", rest |-> ""]
LocalURL == [scheme |-> "http", host |-> "localhost", rest |-> ""]

NoRow == [status |-> "absent", attempt_count |-> 0, next_in |-> 0, received |-> 0,
          problem |-> "", callback_url |-> NoURL]

\* the models.PendingChallenge HandleSolve builds: status pending,
\* attempt_count 0, received_at = next_retry_time = now
PendingChallenge_InWork(id, problem, callbackURL, rcv) ==
    [id |-> id, problem |-> problem, callback_url |-> callbackURL, received |-> rcv,
     status |-> "processing", attempt_count |-> 0, next_in |-> 0]

\* the models.PendingChallenge of HandleSolve: ReceivedAt and NextRetryTime are
\* both time.Now(), so next_in (NextRetryTime - now) is 0
PendingChallenge(id, problem, callbackURL, rcv) ==
    [id |-> id, problem |-> problem, callback_url |-> callbackURL, received |-> rcv,
     status |-> "pending", attempt_count |-> 0, next_in |-> 0]

\* INSERT INTO pending_challenges (id is the primary key: a second row of an
\* id is an error and changes nothing)
SaveChallenge(tbl, challenge) ==
    IF tbl[challenge.id] # NoRow THEN tbl
    ELSE [tbl EXCEPT ![challenge.id] =
             [status |-> challenge.status, attempt_count |-> challenge.attempt_count,
              next_in |-> challenge.next_in, received |-> challenge.received,
              problem |-> challenge.problem, callback_url |-> challenge.callback_url]]

GetChallenge_Miss(tbl, id) == NoRow

\* SELECT ... FROM pending_challenges WHERE id = ? (NoRow: sql.ErrNoRows)
GetChallenge(tbl, id) == tbl[id]

\* UPDATE ... SET status, attempt_count, next_retry_time WHERE id = ?
\* (no row, no effect). next_in is next_retry_time - now, 0 when not later.
UpdateChallengeStatus(tbl, id, status, attemptCount, nextIn) ==
    IF tbl[id] = NoRow THEN tbl
    ELSE [tbl EXCEPT ![id] = [@ EXCEPT !.status = status,
                                       !.attempt_count = attemptCount,
                                       !.next_in = nextIn]]

\* DELETE FROM pending_challenges WHERE id = ?
DeleteChallenge(tbl, id) == [tbl EXCEPT ![id] = NoRow]

\* WHERE status = 'pending' OR (status = 'processing' AND next_retry_time <= now)
IsDue_AnyRetryTime(row) == row.status \in {"pending", "processing"}

\* WHERE (status = 'pending' OR (status = 'processing' AND next_retry_time <= ?))
IsDue(row) ==
    \/ row.status = "pending"
    \/ row.status = "processing" /\ row.next_in = 0

RECURSIVE SortByReceived(_, _)
SortByReceived(tbl, S) ==
    IF S = {} THEN <<>>
    ELSE LET first == CHOOSE i \in S : \A j \in S : tbl[i].received <= tbl[j].received
         IN  <<first>> \o SortByReceived(tbl, S \ {first})

Take(s, n) == IF Len(s) <= n THEN s ELSE SubSeq(s, 1, n)

\* ... ORDER BY received_at ASC LIMIT ?
GetPendingChallenges(tbl, limit) ==
    Take(SortByReceived(tbl, {i \in DOMAIN tbl : tbl[i] # NoRow /\ IsDue(tbl[i])}), limit)

---------------------------------------------------------------------------
(* part_007: the Challenger's result store *)

KeyRows(store, cid, rid) ==
    {r \in BagToSet(store) : r.challenge_id = cid /\ r.request_id = rid}

SaveResultWithDuplicateCheck_Plain(store, row) ==
    [store |-> store (+) SetToBag({row}), inserted |-> TRUE]

\* INSERT OR IGNORE INTO results ... UNIQUE (challenge_id, request_id);
\* returns rowsAffected > 0
SaveResultWithDuplicateCheck(store, row) ==
    IF KeyRows(store, row.challenge_id, row.request_id) # {}
    THEN [store |-> store, inserted |-> FALSE]
    ELSE [store |-> store (+) SetToBag({row}), inserted |-> TRUE]

RowsFor(store, cid) ==
    LET S == {r \in BagToSet(store) : r.challenge_id = cid}
    IN  BagCardinality([r \in S |-> store[r]])

---------------------------------------------------------------------------
(* internal/solver worker pool *)

\* pc: where the goroutine stands; id, AttemptCount: the snapshot it took from
\* the channel; attempt: the loop variable of sendCallbackWithRetry; answer: the
\* evaluator's answer ("" when it failed); sleep: what is left of time.Sleep;
\* stored (history): an earlier attempt of this run reached the Challenger's
\* store although the worker saw an error
IdleWorker == [pc |-> "idle", id |-> NoId, AttemptCount |-> 0, attempt |-> 0,
               answer |-> "", stored |-> FALSE, sleep |-> 0]

\* what SendCallback can come back with: err # nil before the request reached
\* the Challenger, err # nil after the Challenger handled it (the response was
\* lost or timed out), or a response status. A 200 is the Challenger's answer
\* after its handler ran; the other statuses leave its store alone.
Resp(err, handled, code) == [err |-> err, handled |-> handled, code |-> code]
NetErr == Resp(TRUE, FALSE, 0)
Lost == Resp(TRUE, TRUE, 0)
Responses == {NetErr, Lost, Resp(FALSE, TRUE, 200)} \cup
             {Resp(FALSE, FALSE, c) : c \in {404, 429, 503}}

\* WorkerPool.shouldRetry(statusCode, err)
shouldRetry(statusCode, err) ==
    IF err THEN TRUE
    ELSE IF statusCode = 429 THEN TRUE
    ELSE IF statusCode >= 500 THEN TRUE
    ELSE IF statusCode >= 400 /\ statusCode < 500 THEN FALSE
    ELSE FALSE

\* err == nil && statusCode >= 200 && statusCode < 300
IsSuccess_Strict(statusCode, err) == ~err /\ statusCode > 200 /\ statusCode < 300

IsSuccess(statusCode, err) == ~err /\ statusCode >= 200 /\ statusCode < 300

\* one iteration of the loop of sendCallbackWithRetry, attempt = 0..5: return nil
\* ("success"), return an error ("failed"), or update the row, sleep and go on
AttemptOutcome(attempt, statusCode, err) ==
    IF IsSuccess(statusCode, err) THEN "success"
    ELSE IF ~shouldRetry(statusCode, err) THEN "failed"
    ELSE IF attempt = MaxRetryAttempts - 1 THEN "failed"
    ELSE "retry"

Bump(n) == IF n < MaxSends THEN n + 1 ELSE n

\* uuid.New() for X-Request-ID: fresh for each SendCallback, so it differs from
\* the request id of every row the Challenger holds for the problem
FreshRequestId(store, cid) == RowsFor(store, cid) + 1

---------------------------------------------------------------------------
(* internal/challenger: what the callback receiver stores *)

\* models.ValidationRule.Params: absent, text that does not unmarshal, or the
\* decoded fields (a field the JSON lacks keeps the value the caller preset)
NilParams == [kind |-> "nil", case_sensitive |-> TRUE, tolerance |-> 0,
              pattern |-> [valid |-> FALSE, matches |-> {}]]
BadParams == [NilParams EXCEPT !.kind = "bad"]
ExactMatchParams(caseSensitive) ==
    [NilParams EXCEPT !.kind = "json", !.case_sensitive = caseSensitive]
NumericToleranceParams(tolerance) ==
    [NilParams EXCEPT !.kind = "json", !.tolerance = tolerance]
\* a pattern is the set of answers it matches, or text regexp.Compile rejects
RegexParams(pattern) == [NilParams EXCEPT !.kind = "json", !.pattern = pattern]

ValidationRule(type, params, answer) ==
    [type |-> type, params |-> params, answer |-> answer]

\* strings.EqualFold over the answers of the model
Fold(s) == IF s = "RIGHT" THEN "right" ELSE IF s = "WRONG" THEN "wrong" ELSE s
EqualFold(a, b) == Fold(a) = Fold(b)

\* strconv.ParseFloat over the answers of the model
Numerals == [s \in {"41", "42", "43", "45"} |->
                IF s = "41" THEN 41 ELSE IF s = "42" THEN 42
                ELSE IF s = "43" THEN 43 ELSE 45]
ParseFloat(s) ==
    IF s \in DOMAIN Numerals THEN [err |-> FALSE, val |-> Numerals[s]]
    ELSE [err |-> TRUE, val |-> 0]

Verdict(valid, err) == [valid |-> valid, err |-> err]

validateExactMatch(rule, receivedAnswer) ==
    IF rule.params.kind = "bad" THEN Verdict(FALSE, TRUE)
    ELSE IF rule.params.case_sensitive THEN Verdict(rule.answer = receivedAnswer, FALSE)
    ELSE Verdict(EqualFold(rule.answer, receivedAnswer), FALSE)

validateNumericTolerance(rule, receivedAnswer) ==
    IF rule.params.kind # "json" THEN Verdict(FALSE, TRUE)
    ELSE IF ParseFloat(rule.answer).err \/ ParseFloat(receivedAnswer).err
    THEN Verdict(FALSE, TRUE)
    ELSE LET d == ParseFloat(rule.answer).val - ParseFloat(receivedAnswer).val
             diff == IF d < 0 THEN -d ELSE d
         IN  Verdict(diff <= rule.params.tolerance, FALSE)

validateRegex(rule, receivedAnswer) ==
    IF rule.params.kind # "json" THEN Verdict(FALSE, TRUE)
    ELSE IF ~rule.params.pattern.valid THEN Verdict(FALSE, TRUE)
    ELSE Verdict(receivedAnswer \in rule.params.pattern.matches, FALSE)

\* Validator.ValidateAnswer: (valid, error)
ValidateAnswer(rule, receivedAnswer) ==
    IF rule.type = "ExactMatch" THEN validateExactMatch(rule, receivedAnswer)
    ELSE IF rule.type = "NumericTolerance"
    THEN validateNumericTolerance(rule, receivedAnswer)
    ELSE IF rule.type = "Regex" THEN validateRegex(rule, receivedAnswer)
    ELSE Verdict(FALSE, TRUE)

\* the challenges table of the Challenger: statement and validation rule by id.
\* All but p2 have the statement of p1 and differ in the rule only.
Challenge(problem, rule) == [problem |-> problem, validation_rule |-> rule]

Challenges ==
    [id \in {"p1", "p2", "e1", "n1", "n2", "n3", "n4", "r1", "r2", "r3", "r4", "u1"} |->
       IF id = "p1" THEN Challenge("s1", ValidationRule("ExactMatch", NilParams, "right"))
       ELSE IF id = "p2"
       THEN Challenge("s2", ValidationRule("ExactMatch", ExactMatchParams(FALSE), "right"))
       ELSE IF id = "e1" THEN Challenge("s1", ValidationRule("ExactMatch", BadParams, "right"))
       ELSE IF id = "n1"
       THEN Challenge("s1", ValidationRule("NumericTolerance", NumericToleranceParams(1), "42"))
       ELSE IF id = "n2" THEN Challenge("s1", ValidationRule("NumericTolerance", NilParams, "42"))
       ELSE IF id = "n3" THEN Challenge("s1", ValidationRule("NumericTolerance", BadParams, "42"))
       ELSE IF id = "n4"
       THEN Challenge("s1", ValidationRule("NumericTolerance", NumericToleranceParams(1), "right"))
       ELSE IF id = "r1"
       THEN Challenge("s1", ValidationRule("Regex",
                RegexParams([valid |-> TRUE, matches |-> {"right", "RIGHT"}]), ""))
       ELSE IF id = "r2" THEN Challenge("s1", ValidationRule("Regex", NilParams, ""))
       ELSE IF id = "r3" THEN Challenge("s1", ValidationRule("Regex", BadParams, ""))
       ELSE IF id = "r4"
       THEN Challenge("s1", ValidationRule("Regex",
                RegexParams([valid |-> FALSE, matches |-> {}]), ""))
       ELSE Challenge("s1", ValidationRule("Fuzzy", NilParams, "right"))]

\* ChallengerDB.GetChallenge finds a row
KnownChallenges == DOMAIN Challenges

IsCorrect_AnyStatus(rule, status, answer) ==
    LET v == ValidateAnswer(rule, answer)
    IN  IF v.err THEN FALSE ELSE v.valid

\* HandleCallback: isCorrect, validated only for a success with an answer; an
\* error of the validator is logged
IsCorrect(rule, status, answer) ==
    IF status = "success" /\ answer # ""
    THEN LET v == ValidateAnswer(rule, answer)
         IN  IF v.err THEN FALSE ELSE v.valid
    ELSE FALSE

\* HandleCallback, from the validation to the insert: the result row
ResultRow(cid, rid, status, answer) ==
    [challenge_id |-> cid, request_id |-> rid, status |-> status,
     received_answer |-> answer,
     is_correct |-> IsCorrect(Challenges[cid].validation_rule, status, answer)]

---------------------------------------------------------------------------
(* SpecSolver *)

\* an HTTP request that has not arrived yet
NewReq ==
    [pc |-> "new", auth |-> "ok", nonce |-> 0, sigOK |-> TRUE, ts |-> 0,
     pid |-> "", bodyPid |-> "", rid |-> 0, status |-> "", answer |-> "",
     inserted |-> FALSE, code |-> 0, errcode |-> "", received |-> FALSE,
     dup |-> FALSE, prior |-> FALSE, priorAt |-> -1, checkedAt |-> -1,
     acceptedAt |-> -1, recorded |-> FALSE,
     api_version |-> "v2.1", problem |-> "s1", callback |-> LocalURL,
     job |-> "", rcv |-> -1, after |-> {},
     keyKnown |-> TRUE, tsJunk |-> FALSE, verr |-> "", bodyLen |-> 0]

\* a server of one of `services` that will receive n requests
InitServer(services, n) ==
    /\ webhooks = EmptyBag
    /\ seen = [x \in {} |-> 0]
    /\ req = [i \in 1..n |-> NewReq]
    /\ now = 0
    /\ svc \in services
    /\ sent = {}

NoAttempt == [attempt |-> 0, code |-> 0, err |-> FALSE]

InitOther ==
    /\ InitServer({"solver"}, 0)
    /\ retryIn = NoAttempt
    /\ retryOut = "none"

\* NewWorkerPool and Start: the quit channels are open
Running == [closed |-> FALSE, queued |-> 0]

InitPool(workers, problems, tickBudget) ==
    /\ quit = Running
    /\ pending = [i \in problems |-> NoRow]
    /\ jobQueue = <<>>
    /\ wk = [w \in workers |-> IdleWorker]
    /\ enrolls = 0
    /\ ticks = tickBudget
    /\ attempts = [i \in problems |-> 0]
    /\ lost = 0
    /\ results = EmptyBag

InitSolver == InitPool(WorkerIds, {"p1"}, MaxTicks) /\ InitOther

\* Service.HandleSolve for a valid, authenticated request: GetChallenge, then
\* SaveChallenge when there is no row
HandleSolve(id) ==
    /\ enrolls < MaxEnrolls
    /\ GetChallenge(pending, id) = NoRow
    /\ pending' = SaveChallenge(pending, PendingChallenge(id, "s1", LocalURL, enrolls + 1))
    /\ enrolls' = enrolls + 1
    /\ attempts' = [attempts EXCEPT ![id] = 0]
    /\ UNCHANGED <<jobQueue, wk, ticks, lost, results, chalVars, retryVars, quit>>

\* the dispatcher's loop over the rows it read: a non-blocking channel send of
\* each, skipped when the channel is full
RECURSIVE Enqueue(_, _, _)
Enqueue(q, tbl, ids) ==
    IF ids = <<>> THEN q
    ELSE LET id == Head(ids)
             row == tbl[id]
             skip == row.status = "processing" /\ row.next_in > 0
             q2 == IF ~skip /\ Len(q) < QueueCap
                   THEN Append(q, [id |-> id, AttemptCount |-> row.attempt_count])
                   ELSE q
         IN  Enqueue(q2, tbl, Tail(ids))

\* WorkerPool.dispatcher, one tick
Dispatch ==
    /\ ticks # 0
    /\ ticks' = IF ticks > 0 THEN ticks - 1 ELSE ticks
    /\ jobQueue' = Enqueue(jobQueue, pending,
                           GetPendingChallenges(pending, Cardinality(Workers) * 2))
    /\ UNCHANGED <<pending, wk, enrolls, attempts, lost, results, chalVars, retryVars, quit>>

\* WorkerPool.worker: case challenge := <-wp.jobQueue
WorkerTake(w) ==
    /\ wk[w].pc = "idle"
    /\ jobQueue # <<>>
    /\ wk' = [wk EXCEPT ![w] = [IdleWorker EXCEPT !.pc = "mark",
                                   !.id = Head(jobQueue).id,
                                   !.AttemptCount = Head(jobQueue).AttemptCount]]
    /\ jobQueue' = Tail(jobQueue)
    /\ quit' = [quit EXCEPT !.queued = IF @ > 0 THEN @ - 1 ELSE 0]
    /\ UNCHANGED <<pending, enrolls, ticks, attempts, lost, results, chalVars, retryVars>>

\* processChallenge: UpdateChallengeStatus(id, "processing", challenge.AttemptCount, now)
WorkerMark(w) ==
    /\ wk[w].pc = "mark"
    /\ pending' = UpdateChallengeStatus(pending, wk[w].id, "processing",
                                        wk[w].AttemptCount, 0)
    /\ wk' = [wk EXCEPT ![w].pc = "solve"]
    /\ UNCHANGED <<jobQueue, enrolls, ticks, attempts, lost, results, chalVars, retryVars, quit>>

\* processChallenge: solveChallenge returns an answer or an error
WorkerSolve(w, answer) ==
    /\ wk[w].pc = "solve"
    /\ wk' = [wk EXCEPT ![w].pc = "send", ![w].answer = answer, ![w].attempt = 0]
    /\ UNCHANGED <<pending, jobQueue, enrolls, ticks, attempts, lost, results,
                   chalVars, retryVars, quit>>

\* the callback request of processChallenge
CallbackStatus(answer) == IF answer = "" THEN "failed" ELSE "success"

CallbackRequest_AsSolved(id, answer) ==
    [ChallengeID |-> id, Status |-> "success", Answer |-> answer, ErrorCode |-> ""]

\* models.CallbackRequest as processChallenge fills it in: answer "" stands for
\* an error of solveChallenge
CallbackRequest(id, answer) ==
    [ChallengeID |-> id, Status |-> CallbackStatus(answer), Answer |-> answer,
     ErrorCode |-> IF answer = "" THEN "SOLVER_ERROR" ELSE ""]

\* one iteration of sendCallbackWithRetry: SendCallback, its outcome r, and what
\* the worker writes next, the backoff delay being one of delays; on the way
\* out of processChallenge the row is deleted (success) or marked failed (error)
sendCallbackWithRetry(w, r, delays) ==
    LET id == wk[w].id
        callbackReq == CallbackRequest(id, wk[w].answer)
        row == ResultRow(id, FreshRequestId(results, id), callbackReq.Status, callbackReq.Answer)
        outcome == AttemptOutcome(wk[w].attempt, r.code, r.err)
    IN  /\ wk[w].pc = "send"
        /\ r = Lost => lost < MaxLost
        /\ lost' = IF r = Lost THEN lost + 1 ELSE lost
        /\ attempts' = [attempts EXCEPT ![id] = Bump(@)]
        /\ results' = IF r.handled /\ id \in KnownChallenges
                      THEN SaveResultWithDuplicateCheck(results, row).store
                      ELSE results
        /\ IF outcome = "success"
           THEN /\ pending' = DeleteChallenge(pending, id)
                /\ wk' = [wk EXCEPT ![w] = IdleWorker]
           ELSE IF outcome = "failed"
           THEN /\ pending' = UpdateChallengeStatus(pending, id, "failed",
                                                    MaxRetryAttempts, 0)
                /\ wk' = [wk EXCEPT ![w] = IdleWorker]
           ELSE \E delay \in delays :
                /\ pending' = UpdateChallengeStatus(pending, id, "processing",
                                                    wk[w].attempt + 1, delay)
                /\ wk' = [wk EXCEPT ![w].pc = "sleep", ![w].sleep = delay,
                                    ![w].stored = (@ \/ r.handled)]
        /\ UNCHANGED <<jobQueue, enrolls, ticks, chalVars, retryVars, quit>>

\* the same with the delay counted in clock steps of Tick
SendCallbackStep(w, r) == sendCallbackWithRetry(w, r, 1..DelayTicks)

\* time.Sleep(delay) returns; attempt++
WorkerWake(w) ==
    /\ wk[w].pc = "sleep"
    /\ wk[w].sleep = 0
    /\ wk' = [wk EXCEPT ![w].pc = "send", ![w].attempt = @ + 1]
    /\ UNCHANGED <<pending, jobQueue, enrolls, ticks, attempts, lost, results,
                   chalVars, retryVars, quit>>

Dec(n) == IF n > 0 THEN n - 1 ELSE 0

\* one clock step: every next_retry_time and every sleep comes one step closer
Tick ==
    /\ \/ \E i \in Problems : pending[i].next_in > 0
       \/ \E w \in Workers : wk[w].sleep > 0
    /\ pending' = [i \in Problems |-> [pending[i] EXCEPT !.next_in = Dec(@)]]
    /\ wk' = [w \in Workers |-> [wk[w] EXCEPT !.sleep = Dec(@)]]
    /\ UNCHANGED <<jobQueue, enrolls, ticks, attempts, lost, results, chalVars, retryVars, quit>>

Answers == {"", "right"}

NextSolver ==
    \/ \E id \in Problems : HandleSolve(id)
    \/ Dispatch
    \/ \E w \in Workers : WorkerTake(w)
    \/ \E w \in Workers : WorkerMark(w)
    \/ \E w \in Workers, a \in Answers : WorkerSolve(w, a)
    \/ \E w \in Workers, r \in Responses : SendCallbackStep(w, r)
    \/ \E w \in Workers : WorkerWake(w)
    \/ Tick

SpecSolver == InitSolver /\ [][NextSolver]_vars

\* the steps of one worker goroutine
WorkerStep(w) ==
    \/ WorkerTake(w)
    \/ WorkerMark(w)
    \/ \E a \in Answers : WorkerSolve(w, a)
    \/ \E r \in Responses : SendCallbackStep(w, r)
    \/ WorkerWake(w)

\* one worker, no limit on the dispatcher's ticks; the Go scheduler runs every
\* goroutine that can take a step, the ticker keeps firing and time passes
InitLive == InitPool({"w1"}, {"p1"}, -1) /\ InitOther

LiveSolver ==
    /\ InitLive
    /\ [][NextSolver]_vars
    /\ WF_vars(Dispatch)
    /\ WF_vars(Tick)
    /\ WF_vars(WorkerStep("w1"))

---------------------------------------------------------------------------
(* Claims about the Solver *)

Is2xx(r) == ~r.err /\ r.code \in 200..299

\* C3: a callback retried after the response to an earlier attempt of the same
\* run was lost, the Challenger having stored that attempt, adds no result row.
C3_RetryAddsNoRow ==
    [][\A w \in Workers, r \in Responses :
          (SendCallbackStep(w, r) /\ wk[w].stored) => results' = results]_vars

\* C4: no two workers are inside processChallenge for the same problem id.
C4_OneWorkerPerItem ==
    \A w1, w2 \in Workers :
        (w1 # w2 /\ wk[w1].pc # "idle" /\ wk[w2].pc # "idle") => wk[w1].id # wk[w2].id

\* C5: over the lifetime of a work item at most MaxRetryAttempts (6) callback
\* deliveries are attempted for it.
C5_RetryBudget == \A id \in Problems : attempts[id] <= MaxRetryAttempts

\* C6: when a delivery ends in terminal failure (a non-retryable response, or a
\* retryable failure of the 6th attempt), the worker stops and the row is
\* there with status failed and attempt_count 6.
C6_TerminalFailure ==
    [][\A w \in Workers, r \in Responses :
          (/\ SendCallbackStep(w, r)
           /\ ~Is2xx(r)
           /\ \/ r.code \in (300..428) \cup (430..499)
              \/ wk[w].attempt = 5)
          => /\ wk'[w].pc = "idle"
             /\ pending'[wk[w].id].status = "failed"
             /\ pending'[wk[w].id].attempt_count = 6]_vars

\* C7: when an attempt is answered 2xx the worker stops sending, the row is
\* deleted by that step, and a deleted row never comes back as failed.
C7_SuccessDeletes ==
    [][/\ \A w \in Workers, r \in Responses :
            (SendCallbackStep(w, r) /\ Is2xx(r))
            => (wk'[w].pc = "idle" /\ pending'[wk[w].id] = NoRow)
       /\ \A id \in Problems :
            pending[id] = NoRow => pending'[id].status \in {"absent", "pending"}]_vars

\* a second or later attempt was acknowledged and the row is gone
C7_Witness ==
    \E id \in Problems :
        /\ attempts[id] >= 2
        /\ RowsFor(results, id) = 1
        /\ pending[id] = NoRow
        /\ \A w \in Workers : wk[w].pc = "idle"

\* C9: under fair scheduling every enrolled item ends deleted or failed, and
\* stays so.
C9_EventuallyDone == <>[](pending["p1"].status \in {"absent", "failed"})

\* the item was enrolled, skipped by a tick because the channel was full, and
\* has come to rest
C9_Witness ==
    /\ enrolls = 1
    /\ pending["p1"].status \in {"absent", "failed"}
    /\ attempts["p1"] >= 1
    /\ \A w \in Workers : wk[w].pc = "idle"
    /\ jobQueue = <<>>

---------------------------------------------------------------------------
(* SpecRetry: one iteration of the loop of sendCallbackWithRetry *)

\* the status codes net/http hands back: three digits
StatusCodes == 100..999

\* what SendCallback can return: (0, err) or (resp.StatusCode, nil)
SendResults ==
    {[code |-> 0, err |-> TRUE]} \cup {[code |-> c, err |-> FALSE] : c \in StatusCodes}

InitRetry ==
    /\ InitPool({"w1"}, {"p1"}, 0)
    /\ InitServer({"solver"}, 0)
    /\ retryIn \in {[attempt |-> a, code |-> r.code, err |-> r.err] :
                        a \in 0..(MaxRetryAttempts - 1), r \in SendResults}
    /\ retryOut = "none"

RetryIteration ==
    /\ retryOut = "none"
    /\ retryOut' = AttemptOutcome(retryIn.attempt, retryIn.code, retryIn.err)
    /\ UNCHANGED <<retryIn, solverVars, results, chalVars, quit>>

NextRetry == RetryIteration

SpecRetry == InitRetry /\ [][NextRetry]_vars

\* C8: an attempt that did not end in 2xx is followed by another attempt iff it
\* is not the last of the run and it ended in a transport error, in status 429
\* or in a status of 500..599; every other outcome ends the run as failed.
C8_RetryIff ==
    (retryOut # "none" /\ ~IsSuccess(retryIn.code, retryIn.err))
    => /\ retryOut \in {"retry", "failed"}
       /\ retryOut = "retry"
          <=> /\ retryIn.attempt < MaxRetryAttempts - 1
              /\ \/ retryIn.err
                 \/ retryIn.code = 429
                 \/ retryIn.code \in 500..599

---------------------------------------------------------------------------
(* pkg/auth/hmac.go, pkg/db: signature verification and the nonce store *)

\* NewHMACAuth's clockSkew; the clock `now` counts in units of it
ClockSkew == 1

\* int64 is modelled by two's complement integers of IntBits bits
IntBits == 6
MinInt64 == -(2 ^ (IntBits - 1))
MaxInt64 == 2 ^ (IntBits - 1) - 1

\* the int64 an arithmetic result is stored as
Int64(x) == ((x - MinInt64) % (2 ^ IntBits)) + MinInt64

\* abs: -x is computed in int64
abs(x) == IF x < 0 THEN Int64(-x) ELSE x

\* strconv.ParseInt(auth.Timestamp, 10, 64): an error for text that is no
\* decimal number and for a number outside int64
ParseInt(r) ==
    IF r.tsJunk \/ r.ts < MinInt64 \/ r.ts > MaxInt64
    THEN [err |-> TRUE, val |-> 0]
    ELSE [err |-> FALSE, val |-> r.ts]

\* HMACAuth.VerifySignature at Unix time t: "" when the request verifies
VerifySignature(r, t) ==
    IF ~r.keyKnown THEN "unknown keyId"
    ELSE IF ParseInt(r).err THEN "invalid timestamp"
    ELSE IF abs(Int64(t - ParseInt(r).val)) > ClockSkew
    THEN "timestamp outside allowed skew"
    ELSE IF ~r.sigOK THEN "signature mismatch"
    ELSE ""

\* SELECT COUNT(*) FROM seen_nonces WHERE nonce = ?
HasSeenNonce(store, nonce) == nonce \in DOMAIN store

\* SolverDB.SaveNonce: INSERT, an error on a nonce that is there
SolverSaveNonce(store, nonce, t) ==
    IF nonce \in DOMAIN store THEN [store |-> store, err |-> TRUE]
    ELSE [store |-> (nonce :> t) @@ store, err |-> FALSE]

\* ChallengerDB.SaveNonce: INSERT OR IGNORE
ChallengerSaveNonce(store, nonce, t) ==
    IF nonce \in DOMAIN store THEN [store |-> store, err |-> FALSE]
    ELSE [store |-> (nonce :> t) @@ store, err |-> FALSE]

\* Middleware.saveNonce: the store of the service the middleware belongs to
saveNonce(service, store, nonce, t) ==
    IF service = "challenger" THEN ChallengerSaveNonce(store, nonce, t)
    ELSE SolverSaveNonce(store, nonce, t)

CleanupOldNonces_All(store, olderThan) == [x \in {} |-> 0]

\* DELETE FROM seen_nonces WHERE seen_at < ?
CleanupOldNonces(store, olderThan) ==
    [n \in {m \in DOMAIN store : ~(store[m] < olderThan)} |-> store[n]]

---------------------------------------------------------------------------
(* pkg/api/middleware.go, internal/challenger/service.go: a server *)

\* Middleware.writeError, Service.writeError
writeError(r, statusCode, code) ==
    [r EXCEPT !.pc = "done", !.code = statusCode, !.errcode = code]

writeCallbackResponse_Fresh(r, duplicate) ==
    [r EXCEPT !.pc = "done", !.code = 200, !.received = TRUE, !.dup = FALSE]

\* Service.writeCallbackResponse
writeCallbackResponse(r, duplicate) ==
    [r EXCEPT !.pc = "done", !.code = 200, !.received = TRUE, !.dup = duplicate]

\* history: the requests carrying nonce n that were handed to the handler
AcceptedWith(n) == {i \in DOMAIN req : req[i].nonce = n /\ req[i].acceptedAt >= 0}

\* history: when nonce n was last recorded in seen_nonces, -1 if never
LastRecorded(n) ==
    LET T == {req[i].acceptedAt : i \in {j \in AcceptedWith(n) : req[j].recorded}}
    IN  IF T = {} THEN -1 ELSE CHOOSE t \in T : \A u \in T : u <= t

\* request i reaches the server carrying the fields of r
Arrives(i, r) ==
    /\ i \in DOMAIN req
    /\ req[i].pc = "new"
    /\ \A j \in DOMAIN req : j < i => req[j].pc # "new"
    /\ req' = [req EXCEPT ![i] = [r EXCEPT !.pc = "auth",
                                           !.prior = AcceptedWith(r.nonce) # {},
                                           !.priorAt = LastRecorded(r.nonce)]]

HMACAuthCheck_SignatureFirst(i) ==
    /\ i \in DOMAIN req
    /\ req[i].pc = "auth"
    /\ req' = [req EXCEPT ![i] =
                  IF @.auth = "missing" THEN writeError(@, 401, "MISSING_AUTH")
                  ELSE IF @.auth = "malformed" THEN writeError(@, 401, "INVALID_AUTH")
                  ELSE IF VerifySignature(@, now) # ""
                       THEN writeError(@, 401, "INVALID_SIGNATURE")
                  ELSE IF HasSeenNonce(seen, @.nonce)
                       THEN writeError([@ EXCEPT !.checkedAt = now], 401, "REPLAY_ATTACK")
                  ELSE [@ EXCEPT !.pc = "verify", !.checkedAt = now]]
    /\ UNCHANGED <<solverVars, results, webhooks, seen, now, svc, sent, retryVars, quit>>

\* the body limit SizeLimit puts on r.Body
MaxRequestSize == 5 * 1024 * 1024

\* io.ReadAll of a body behind http.MaxBytesReader(w, r.Body, MaxRequestSize):
\* an error when the body has more bytes than the limit
ReadAllFails(r) == r.bodyLen > MaxRequestSize

\* HMACAuth up to checkNonce: the Authorization header, ParseAuthHeader,
\* reading the body, the replay check
HMACAuthCheck(i) ==
    /\ i \in DOMAIN req
    /\ req[i].pc = "auth"
    /\ req' = [req EXCEPT ![i] =
                  IF @.auth = "missing" THEN writeError(@, 401, "MISSING_AUTH")
                  ELSE IF @.auth = "malformed" THEN writeError(@, 401, "INVALID_AUTH")
                  ELSE IF ReadAllFails(@) THEN writeError(@, 400, "READ_ERROR")
                  ELSE IF HasSeenNonce(seen, @.nonce)
                       THEN writeError([@ EXCEPT !.checkedAt = now], 401, "REPLAY_ATTACK")
                  ELSE [@ EXCEPT !.pc = "verify", !.checkedAt = now]]
    /\ UNCHANGED <<solverVars, results, webhooks, seen, now, svc, sent, retryVars, quit>>

HMACAuthVerify_SaveOrFail(i) ==
    /\ i \in DOMAIN req
    /\ req[i].pc = "verify"
    /\ IF VerifySignature(req[i], now) # ""
       THEN /\ req' = [req EXCEPT ![i] =
                          writeError([@ EXCEPT !.verr = VerifySignature(req[i], now)],
                                     401, "INVALID_SIGNATURE")]
            /\ seen' = seen
       ELSE LET s == saveNonce(svc, seen, req[i].nonce, now)
            IN  /\ seen' = s.store
                /\ req' = [req EXCEPT ![i] =
                              IF s.err THEN writeError(@, 500, "DB_ERROR")
                              ELSE [@ EXCEPT !.pc = "handler", !.acceptedAt = now,
                                             !.recorded = (s.store # seen)]]
    /\ UNCHANGED <<solverVars, results, webhooks, now, svc, sent, retryVars, quit>>

HMACAuthVerify_SaveFirst(i) ==
    /\ i \in DOMAIN req
    /\ req[i].pc = "verify"
    /\ LET s == saveNonce(svc, seen, req[i].nonce, now)
       IN  /\ seen' = s.store
           /\ req' = [req EXCEPT ![i] =
                         IF VerifySignature(req[i], now) # ""
                         THEN writeError([@ EXCEPT !.verr = VerifySignature(req[i], now)],
                                         401, "INVALID_SIGNATURE")
                         ELSE [@ EXCEPT !.pc = "handler", !.acceptedAt = now,
                                        !.recorded = (s.store # seen)]]
    /\ UNCHANGED <<solverVars, results, webhooks, now, svc, sent, retryVars, quit>>

\* HMACAuth from VerifySignature on: saveNonce, its error only logged, and
\* next.ServeHTTP
HMACAuthVerify(i) ==
    /\ i \in DOMAIN req
    /\ req[i].pc = "verify"
    /\ IF VerifySignature(req[i], now) # ""
       THEN /\ req' = [req EXCEPT ![i] =
                          writeError([@ EXCEPT !.verr = VerifySignature(req[i], now)],
                                     401, "INVALID_SIGNATURE")]
            /\ seen' = seen
       ELSE LET s == saveNonce(svc, seen, req[i].nonce, now)
            IN  /\ seen' = s.store
                /\ req' = [req EXCEPT ![i] = [@ EXCEPT !.pc = "handler",
                                                       !.acceptedAt = now,
                                                       !.recorded = (s.store # seen)]]
    /\ UNCHANGED <<solverVars, results, webhooks, now, svc, sent, retryVars, quit>>

HandleCallbackSave_NoIdCheck(i) ==
    /\ i \in DOMAIN req
    /\ svc = "challenger"
    /\ req[i].pc = "handler"
    /\ IF req[i].pid \notin KnownChallenges
       THEN /\ req' = [req EXCEPT ![i] = writeError(@, 404, "CHALLENGE_NOT_FOUND")]
            /\ results' = results
       ELSE LET row == ResultRow(req[i].pid, req[i].rid, req[i].status, req[i].answer)
                s == SaveResultWithDuplicateCheck(results, row)
            IN  /\ results' = s.store
                /\ req' = [req EXCEPT ![i] = [@ EXCEPT !.pc = "respond",
                                                       !.inserted = s.inserted]]
    /\ UNCHANGED <<solverVars, webhooks, seen, now, svc, sent, retryVars, quit>>

\* Service.HandleCallback, for a body that decodes, up to
\* SaveResultWithDuplicateCheck
HandleCallbackSave(i) ==
    /\ i \in DOMAIN req
    /\ svc = "challenger"
    /\ req[i].pc = "handler"
    /\ IF req[i].bodyPid # req[i].pid
       THEN /\ req' = [req EXCEPT ![i] = writeError(@, 400, "CHALLENGE_ID_MISMATCH")]
            /\ results' = results
       ELSE IF req[i].pid \notin KnownChallenges
       THEN /\ req' = [req EXCEPT ![i] = writeError(@, 404, "CHALLENGE_NOT_FOUND")]
            /\ results' = results
       ELSE LET row == ResultRow(req[i].pid, req[i].rid, req[i].status, req[i].answer)
                s == SaveResultWithDuplicateCheck(results, row)
            IN  /\ results' = s.store
                /\ req' = [req EXCEPT ![i] = [@ EXCEPT !.pc = "respond",
                                                       !.inserted = s.inserted]]
    /\ UNCHANGED <<solverVars, webhooks, seen, now, svc, sent, retryVars, quit>>

\* models.WebhookAudit as HandleCallback builds it
AuditRow(cid, rid) == [challenge_id |-> cid, request_id |-> rid, status_code |-> 200]

\* what the side effects of one HandleCallback run do: SaveWebhookAudit
\* ("ok", "err"); uploadToSuiSync ("off" when suiTxBuilder is nil, "ok", "err",
\* "panic": coinPage.Data[1] of a signer with fewer than two coins, objId nil
\* when the transaction created no commitment object); VaultAddBounty ("ok",
\* "err", "panic": coins[0], coinPage.Data[1], vaultGetObject.Data nil)
NoFault == [audit |-> "ok", sui |-> "off", vault |-> "ok"]

SideEffects ==
    {[audit |-> a, sui |-> s, vault |-> "ok"] : a \in {"ok", "err"}, s \in {"off", "panic"}}
    \cup [audit : {"ok", "err"}, sui : {"ok", "err"}, vault : {"ok", "err", "panic"}]

AuditAfter_Always(store, r, isDuplicate, outcome) ==
    store (+) SetToBag({AuditRow(r.pid, r.rid)})

\* HandleCallback: the audit row, only for a result that was inserted; an
\* error of SaveWebhookAudit is logged
AuditAfter(store, r, isDuplicate, outcome) ==
    IF ~isDuplicate /\ outcome = "ok"
    THEN store (+) SetToBag({AuditRow(r.pid, r.rid)})
    ELSE store

\* Service.HandleCallback after the save: the audit row, the Sui upload and
\* the vault bounty of a new successful result, then the response; a panic
\* ends the request without one
HandleCallbackRespond(i, fx) ==
    /\ i \in DOMAIN req
    /\ req[i].pc = "respond"
    /\ LET isDuplicate == ~req[i].inserted
           uploads == fx.sui # "off" /\ ~isDuplicate /\ req[i].status = "success"
       IN  /\ webhooks' = AuditAfter(webhooks, req[i], isDuplicate, fx.audit)
           /\ req' = [req EXCEPT ![i] =
                         IF uploads /\ "panic" \in {fx.sui, fx.vault}
                         THEN [@ EXCEPT !.pc = "aborted"]
                         ELSE writeCallbackResponse(@, isDuplicate)]
    /\ UNCHANGED <<solverVars, results, seen, now, svc, sent, retryVars, quit>>

\* the longest callback URL validateCallbackURL lets through
MaxCallbackURLLen == 2048

\* what the hosts of the model are put together from: Prefix \o name \o Suffix
HostPrefixes == {"", "abc."}
HostSuffixes == {"", ":8080", ".evil.com"}

\* strings.Contains(s, substr), for the hosts of the model
Contains(s, substr) ==
    \E a \in HostPrefixes, b \in HostSuffixes : a \o substr \o b = s

\* len(callbackURL)
URLLen(u) == Len(u.scheme) + Len("://") + Len(u.host) + Len(u.rest)

\* Service.validateCallbackURL: "" when the URL is accepted
validateCallbackURL(u, useNgrok) ==
    IF u = NoURL THEN "callback URL cannot be empty"
    ELSE IF URLLen(u) > MaxCallbackURLLen THEN "callback URL too long"
    ELSE IF useNgrok /\ u.scheme # "https"
    THEN "callback URL must use HTTPS when USE_NGROK=true"
    ELSE IF useNgrok /\ (Contains(u.host, "ngrok.io") \/ Contains(u.host, "ngrok-free.app"))
    THEN ""
    ELSE IF ~useNgrok /\ u.scheme = "http"
    THEN IF Contains(u.host, "localhost") \/ Contains(u.host, "127.0.0.1") THEN ""
         ELSE "HTTP callback URLs only allowed for localhost when USE_NGROK=false"
    ELSE IF ~useNgrok /\ u.scheme = "https" THEN ""
    ELSE IF ~useNgrok THEN "callback URL must use HTTP (localhost only) or HTTPS"
    ELSE IF \E host \in {"localhost", "127.0.0.1"} : Contains(u.host, host) THEN ""
    ELSE "callback URL host not in whitelist"

\* USE_NGROK, false by default
UseNgrok == FALSE

\* fmt.Sprintf("solver_job_%s", solveReq.ChallengeID)
SolverJobID(id) == "solver_job_" \o id

\* the 202 of HandleSolve, in both branches
writeAccepted(r) == [r EXCEPT !.pc = "done", !.code = 202, !.job = SolverJobID(r.pid)]

\* Service.HandleSolve behind the Solver's middleware, with the USE_NGROK of
\* its configuration: the checks of the decoded request, GetChallenge, and
\* SaveChallenge when there is no row
HandleSolveConfigured(i, useNgrok) ==
    /\ i \in DOMAIN req
    /\ svc = "solver"
    /\ req[i].pc = "handler"
    /\ LET r == req[i]
           bad == IF r.api_version # "v2.1" THEN "UNSUPPORTED_VERSION"
                  ELSE IF r.pid = "" THEN "MISSING_CHALLENGE_ID"
                  ELSE IF validateCallbackURL(r.callback, useNgrok) # ""
                  THEN "INVALID_CALLBACK_URL"
                  ELSE ""
       IN  IF bad # ""
           THEN /\ req' = [req EXCEPT ![i] = writeError(@, 400, bad)]
                /\ UNCHANGED <<pending, enrolls>>
           ELSE IF GetChallenge(pending, r.pid) # NoRow
           THEN /\ req' = [req EXCEPT ![i] = writeAccepted(@)]
                /\ UNCHANGED <<pending, enrolls>>
           ELSE IF pending[r.pid] # NoRow
           THEN \* SaveChallenge fails on the primary key
                /\ req' = [req EXCEPT ![i] = writeError(@, 500, "DB_ERROR")]
                /\ UNCHANGED <<pending, enrolls>>
           ELSE /\ pending' = SaveChallenge(pending,
                                  PendingChallenge(r.pid, r.problem, r.callback, enrolls + 1))
                /\ enrolls' = enrolls + 1
                /\ req' = [req EXCEPT ![i] = writeAccepted([@ EXCEPT !.rcv = enrolls + 1])]
    /\ UNCHANGED <<jobQueue, wk, ticks, attempts, lost, results, webhooks, seen,
                   now, svc, sent, retryVars, quit>>

\* the same under the default configuration
HandleSolveRequest(i) == HandleSolveConfigured(i, UseNgrok)

---------------------------------------------------------------------------
(* SpecChal: the Challenger's callback endpoint *)

\* callbacks delivered to the Challenger in a run
MaxCallbacks == 2

\* the problem ids callbacks name: "px" has no challenge row
CallbackIds == {"p1", "px"}
RequestIds == {1, 2}
\* (status, answer) of a callback body
CallbackPayloads == {<<"success", "right">>, <<"success", "wrong">>, <<"failed", "">>}

InitChal ==
    /\ InitPool({"w1"}, {"p1"}, 0)
    /\ InitServer({"challenger"}, MaxCallbacks)
    /\ retryIn = NoAttempt
    /\ retryOut = "none"

\* a callback signed by a Solver, carrying a nonce of its own
ArriveCallback(i, pid, bodyPid, rid, payload) ==
    /\ Arrives(i, [NewReq EXCEPT !.nonce = i, !.ts = now, !.pid = pid,
                                 !.bodyPid = bodyPid, !.rid = rid,
                                 !.status = payload[1], !.answer = payload[2]])
    /\ UNCHANGED <<solverVars, results, webhooks, seen, now, svc, sent, retryVars, quit>>

NextChal ==
    \/ \E i \in DOMAIN req, pid \in CallbackIds, bodyPid \in CallbackIds,
          rid \in RequestIds, payload \in CallbackPayloads :
          ArriveCallback(i, pid, bodyPid, rid, payload)
    \/ \E i \in DOMAIN req : HMACAuthCheck(i)
    \/ \E i \in DOMAIN req : HMACAuthVerify(i)
    \/ \E i \in DOMAIN req : HandleCallbackSave(i)
    \/ \E i \in DOMAIN req : HandleCallbackRespond(i, NoFault)

SpecChal == InitChal /\ [][NextChal]_vars

---------------------------------------------------------------------------
(* SpecAuth: the middleware of either service, the clock, the cleanup task *)

\* requests a server receives in a run
MaxAuthReqs == 2
\* the clock stops here
MaxNow == 3
NonceValues == {1, 2}

InitAuth ==
    /\ InitPool({"w1"}, {"p1"}, 0)
    /\ InitServer({"challenger", "solver"}, MaxAuthReqs)
    /\ retryIn = NoAttempt
    /\ retryOut = "none"

\* a request for problem p1: its Authorization header missing, malformed, or
\* well formed with a nonce, a good or bad signature and a fresh or stale
\* timestamp
ArriveAuth(i, auth, nonce, sigOK, fresh) ==
    /\ auth # "ok" => (nonce = 0 /\ sigOK /\ fresh)
    /\ auth = "ok" => nonce # 0
    /\ Arrives(i, [NewReq EXCEPT !.auth = auth, !.nonce = nonce, !.sigOK = sigOK,
                                 !.ts = IF fresh THEN now ELSE now - ClockSkew - 1,
                                 !.pid = "p1", !.bodyPid = "p1", !.rid = i,
                                 !.status = "success", !.answer = "right"])
    /\ UNCHANGED <<solverVars, results, webhooks, seen, now, svc, sent, retryVars, quit>>

ClockTick ==
    /\ now < MaxNow
    /\ now' = now + 1
    /\ UNCHANGED <<solverVars, results, webhooks, seen, req, svc, sent, retryVars, quit>>

\* cmd/solver cleanupNonces, one tick of its ticker, with the value of
\* cfg.GetClockSkew(): olderThan := time.Now().Add(-2 * cfg.GetClockSkew())
cleanupNoncesTick(GetClockSkew) ==
    /\ svc = "solver"
    /\ seen' = CleanupOldNonces(seen, now - 2 * GetClockSkew)
    /\ seen' # seen
    /\ UNCHANGED <<solverVars, results, webhooks, req, now, svc, sent, retryVars, quit>>

\* the same for a configured skew of one clock unit
cleanupNonces == cleanupNoncesTick(ClockSkew)

NextAuth ==
    \/ \E i \in DOMAIN req, auth \in {"ok", "missing", "malformed"},
          nonce \in NonceValues \cup {0}, sigOK \in BOOLEAN, fresh \in BOOLEAN :
          ArriveAuth(i, auth, nonce, sigOK, fresh)
    \/ \E i \in DOMAIN req : HMACAuthCheck(i)
    \/ \E i \in DOMAIN req : HMACAuthVerify(i)
    \/ \E i \in DOMAIN req : HandleCallbackSave(i)
    \/ \E i \in DOMAIN req : HandleCallbackRespond(i, NoFault)
    \/ \E i \in DOMAIN req : HandleSolveRequest(i)
    \/ ClockTick
    \/ cleanupNonces

SpecAuth == InitAuth /\ [][NextAuth]_vars

---------------------------------------------------------------------------
(* Claims about the servers *)

Rejected(r, code) == r.pc = "done" /\ r.code = 401 /\ r.errcode = code

\* rows of the result store under one key
KeyCount(store, cid, rid) ==
    LET K == KeyRows(store, cid, rid) IN BagCardinality([r \in K |-> store[r]])

C2_OneRowPerKey ==
    [][\A i \in DOMAIN req :
          (HandleCallbackSave(i) /\ req'[i].pc = "respond")
          => LET K == KeyRows(results, req[i].pid, req[i].rid)
                 row == ResultRow(req[i].pid, req[i].rid, req[i].status, req[i].answer)
             IN  /\ req'[i].inserted = (K = {})
                 /\ KeyRows(results', req[i].pid, req[i].rid) = IF K = {} THEN {row} ELSE K
                 /\ KeyCount(results', req[i].pid, req[i].rid) = 1]_vars

\* two calls for one key with different inputs: the first inserted, the second
\* did not, and the row is the first one's
C2_Witness ==
    \E i, j \in DOMAIN req :
        /\ req[i].pc \in {"respond", "done"} /\ req[i].inserted
        /\ req[j].pc \in {"respond", "done"} /\ ~req[j].inserted /\ req[j].code # 400
        /\ req[j].pid = req[i].pid /\ req[j].rid = req[i].rid
        /\ req[j].pid \in KnownChallenges /\ req[j].bodyPid = req[j].pid
        /\ req[j].answer # req[i].answer
        /\ KeyRows(results, req[i].pid, req[i].rid)
             = {ResultRow(req[i].pid, req[i].rid, req[i].status, req[i].answer)}

\* the authenticated callbacks for key (cid, rid) that name an existing
\* challenge in both path and body
CallbacksFor(cid, rid) ==
    {i \in DOMAIN req : /\ req[i].pc # "new"
                        /\ req[i].pid = cid /\ req[i].bodyPid = cid
                        /\ req[i].rid = rid}

AuditCount(store, cid, rid) ==
    LET K == {a \in BagToSet(store) : a.challenge_id = cid /\ a.request_id = rid}
    IN  BagCardinality([a \in K |-> store[a]])

\* C11: the response step of a duplicate callback leaves the audit table as it
\* is, and after every step each (challenge_id, request_id) has at most one
\* audit row, and none without a result row of that key.
C11_AuditOnlyOnInsert ==
    [][/\ \A i \in DOMAIN req, fx \in SideEffects :
            (HandleCallbackRespond(i, fx) /\ ~req[i].inserted) => webhooks' = webhooks
       /\ \A cid \in CallbackIds, rid \in RequestIds :
            /\ AuditCount(webhooks', cid, rid) <= 1
            /\ AuditCount(webhooks', cid, rid) = 1 => KeyCount(results', cid, rid) = 1]_vars

\* a callback and its duplicate are both answered, and the key has one audit row
C11_Witness ==
    \E i, j \in DOMAIN req :
        /\ req[i].pc = "done" /\ req[i].code = 200 /\ ~req[i].dup
        /\ req[j].pc = "done" /\ req[j].code = 200 /\ req[j].dup
        /\ req[j].pid = req[i].pid /\ req[j].rid = req[i].rid
        /\ AuditCount(webhooks, req[i].pid, req[i].rid) = 1

---------------------------------------------------------------------------
(* SpecIntake: solve requests to the Solver, no worker running *)

MaxSolveReqs == 2

\* solve request bodies: those HandleSolve accepts, and one for each check
\* that refuses a body
Statements == {"s1", "s2"}
GoodSolveBody == [api_version |-> "v2.1", challenge_id |-> "p1", problem |-> "s1",
                  callback_url |-> LocalURL]
SolveBodies ==
    [api_version : {"v2.1"}, challenge_id : ProblemIds, problem : Statements,
     callback_url : {LocalURL, [scheme |-> "https", host |-> "example.com", rest |-> ""]}]
    \cup {[GoodSolveBody EXCEPT !.api_version = "v2.0"],
          [GoodSolveBody EXCEPT !.challenge_id = ""],
          [GoodSolveBody EXCEPT !.callback_url =
                                    [scheme |-> "http", host |-> "example.com", rest |-> ""]]}

InitIntake ==
    /\ InitPool({}, ProblemIds, 0)
    /\ InitServer({"solver"}, MaxSolveReqs)
    /\ retryIn = NoAttempt
    /\ retryOut = "none"

\* a correctly signed solve request with a nonce of its own; after is the set
\* of requests answered before it was made
ArriveSolve(i, body) ==
    /\ Arrives(i, [NewReq EXCEPT !.nonce = i, !.ts = now,
                                 !.api_version = body.api_version,
                                 !.pid = body.challenge_id,
                                 !.bodyPid = body.challenge_id,
                                 !.problem = body.problem,
                                 !.callback = body.callback_url,
                                 !.after = {k \in DOMAIN req : req[k].pc = "done"}])
    /\ UNCHANGED <<solverVars, results, webhooks, seen, now, svc, sent, retryVars, quit>>

NextIntake ==
    \/ \E i \in DOMAIN req, body \in SolveBodies : ArriveSolve(i, body)
    \/ \E i \in DOMAIN req : HMACAuthCheck(i)
    \/ \E i \in DOMAIN req : HMACAuthVerify(i)
    \/ \E i \in DOMAIN req : HandleSolveRequest(i)

SpecIntake == InitIntake /\ [][NextIntake]_vars

\* a solve request that passes the checks of HandleSolve
SolveValid(r) ==
    /\ r.api_version = "v2.1"
    /\ r.pid # ""
    /\ validateCallbackURL(r.callback, UseNgrok) = ""

\* request i is the first valid solve request of its problem id: every other
\* one was made after i was answered
FirstSolve(i) ==
    /\ req[i].pc = "done"
    /\ SolveValid(req[i])
    /\ \A k \in DOMAIN req \ {i} :
          (req[k].pc # "new" /\ SolveValid(req[k]) /\ req[k].pid = req[i].pid)
              => i \in req[k].after

\* C12: when a valid solve request is answered and a second valid one with the
\* same problem id is made after that and answered, both got 202 with
\* solver_job_<problem id>, and the row of the problem id holds the statement,
\* callback URL and receive time of the first with status pending,
\* attempt_count 0 and no retry delay.
C12_SecondSolveChangesNothing ==
    \A i, j \in DOMAIN req :
        (/\ FirstSolve(i)
         /\ j # i /\ req[j].pc = "done" /\ SolveValid(req[j])
         /\ req[j].pid = req[i].pid)
        => /\ req[i].code = 202 /\ req[j].code = 202
           /\ req[i].job = "solver_job_" \o req[i].pid
           /\ req[j].job = req[i].job
           /\ pending[req[i].pid] =
                 [status |-> "pending", attempt_count |-> 0, next_in |-> 0,
                  received |-> req[i].rcv, problem |-> req[i].problem,
                  callback_url |-> req[i].callback]

\* the second request carried another statement and another callback URL
C12_Witness ==
    \E i, j \in DOMAIN req :
        /\ FirstSolve(i) /\ req[i].code = 202
        /\ j # i /\ req[j].pc = "done" /\ req[j].code = 202
        /\ req[j].pid = req[i].pid
        /\ req[j].problem # req[i].problem
        /\ req[j].callback # req[i].callback
        /\ pending[req[i].pid].problem = req[i].problem

---------------------------------------------------------------------------
(* SpecVerify: VerifySignature over the values of its input *)

\* the timestamps a header can carry: every int64 and one number past each end
Timestamps == (MinInt64 - 1) .. (MaxInt64 + 1)

\* one request that passed the replay check, at a clock value in 0 .. MaxNow
InitVerify ==
    /\ InitPool({}, {"p1"}, 0)
    /\ webhooks = EmptyBag
    /\ seen = [x \in {} |-> 0]
    /\ now \in 0 .. MaxNow
    /\ svc \in {"challenger", "solver"}
    /\ sent = {}
    /\ \E ts \in Timestamps, keyKnown \in BOOLEAN, tsJunk \in BOOLEAN, sigOK \in BOOLEAN :
          req = [i \in {1} |-> [NewReq EXCEPT !.pc = "verify", !.nonce = 1,
                                             !.ts = ts, !.keyKnown = keyKnown,
                                             !.tsJunk = tsJunk, !.sigOK = sigOK,
                                             !.checkedAt = now]]
    /\ retryIn = NoAttempt
    /\ retryOut = "none"

NextVerify == HMACAuthVerify(1)

SpecVerify == InitVerify /\ [][NextVerify]_vars

\* request r has been through VerifySignature
Verified(r) == r.pc \in {"handler", "done"}

\* the timestamp of r is a decimal int64
TimestampParses(r) == ~r.tsJunk /\ r.ts >= MinInt64 /\ r.ts <= MaxInt64

\* |t - ts| over the integers
Distance(t, ts) == IF t - ts < 0 THEN ts - t ELSE t - ts

\* C14: VerifySignature reports the first failure in the order unknown key id,
\* unparsable timestamp, timestamp further than the skew from now, signature
\* mismatch, and no error when none of them fails.
C14_FirstFailure ==
    \A i \in DOMAIN req :
        Verified(req[i]) =>
            req[i].verr =
                IF ~req[i].keyKnown THEN "unknown keyId"
                ELSE IF ~TimestampParses(req[i]) THEN "invalid timestamp"
                ELSE IF Distance(now, req[i].ts) > ClockSkew
                THEN "timestamp outside allowed skew"
                ELSE IF ~req[i].sigOK THEN "signature mismatch"
                ELSE ""

\* C15: a correctly signed request of a known key with an int64 timestamp
\* verifies exactly when |now - ts| <= skew.
C15_VerifiesIffWithinSkew ==
    \A i \in DOMAIN req :
        (Verified(req[i]) /\ req[i].keyKnown /\ req[i].sigOK /\ TimestampParses(req[i]))
            => (req[i].pc = "handler" <=> Distance(now, req[i].ts) <= ClockSkew)

---------------------------------------------------------------------------
(* SpecSize: solve requests with bodies around the size limit *)

MaxSizeReqs == 2

\* body lengths in bytes
BodyLengths == {0, MaxRequestSize - 1, MaxRequestSize, MaxRequestSize + 1,
                2 * MaxRequestSize}

InitSize ==
    /\ InitPool({}, ProblemIds, 0)
    /\ InitServer({"solver"}, MaxSizeReqs)
    /\ retryIn = NoAttempt
    /\ retryOut = "none"

\* a solve request with a body of bodyLen bytes, signed over that body, with a
\* nonce of its own
ArriveSized(i, auth, pid, bodyLen) ==
    /\ Arrives(i, [NewReq EXCEPT !.auth = auth, !.nonce = i, !.ts = now, !.pid = pid,
                                 !.bodyPid = pid, !.bodyLen = bodyLen])
    /\ UNCHANGED <<solverVars, results, webhooks, seen, now, svc, sent, retryVars, quit>>

NextSize ==
    \/ \E i \in DOMAIN req, auth \in {"ok", "missing", "malformed"},
          pid \in ProblemIds, bodyLen \in BodyLengths :
          ArriveSized(i, auth, pid, bodyLen)
    \/ \E i \in DOMAIN req : HMACAuthCheck(i)
    \/ \E i \in DOMAIN req : HMACAuthVerify(i)
    \/ \E i \in DOMAIN req : HandleSolveRequest(i)

SpecSize == InitSize /\ [][NextSize]_vars

\* C20: an answered request with a well-formed Authorization header and a
\* body of exactly 5 MiB was accepted (202), and one with a body of 5 MiB + 1
\* byte was answered 413.
C20_OversizeIs413 ==
    \A i \in DOMAIN req :
        (req[i].pc = "done" /\ req[i].auth = "ok") =>
            /\ req[i].bodyLen = MaxRequestSize => req[i].code = 202
            /\ req[i].bodyLen = MaxRequestSize + 1 => req[i].code = 413

---------------------------------------------------------------------------
(* SpecJudge: callbacks for challenges of every rule kind *)

MaxJudged == 1

\* (status, answer) of a callback body
JudgedPayloads ==
    {"success", "failed"} \X {"right", "RIGHT", "wrong", "42", "43", "45", ""}

InitJudge ==
    /\ InitPool({}, {"p1"}, 0)
    /\ InitServer({"challenger"}, MaxJudged)
    /\ retryIn = NoAttempt
    /\ retryOut = "none"

NextJudge ==
    \/ \E i \in DOMAIN req, pid \in KnownChallenges, payload \in JudgedPayloads :
          ArriveCallback(i, pid, pid, i, payload)
    \/ \E i \in DOMAIN req : HMACAuthCheck(i)
    \/ \E i \in DOMAIN req : HMACAuthVerify(i)
    \/ \E i \in DOMAIN req : HandleCallbackSave(i)
    \/ \E i \in DOMAIN req : HandleCallbackRespond(i, NoFault)

SpecJudge == InitJudge /\ [][NextJudge]_vars

\* the validation of a stored or received answer ends in an error
HardError(cid, answer) ==
    ValidateAnswer(Challenges[cid].validation_rule, answer).err

Refused(r, statusCode, code) ==
    r.pc = "done" /\ r.code = statusCode /\ r.errcode = code

\* C17: the handler answers an authenticated callback whose body names another
\* challenge than its path with 400 CHALLENGE_ID_MISMATCH, and one whose
\* challenge is not stored with 404 CHALLENGE_NOT_FOUND; the step writes no
\* result row and no audit row, and no later step belongs to that request.
C17_RejectedWritesNothing ==
    [][\A i \in DOMAIN req :
          /\ (HandleCallbackSave(i) /\ req[i].bodyPid # req[i].pid) =>
                /\ Refused(req'[i], 400, "CHALLENGE_ID_MISMATCH")
                /\ results' = results /\ webhooks' = webhooks
          /\ (HandleCallbackSave(i) /\ req[i].bodyPid = req[i].pid
                                    /\ req[i].pid \notin KnownChallenges) =>
                /\ Refused(req'[i], 404, "CHALLENGE_NOT_FOUND")
                /\ results' = results /\ webhooks' = webhooks
          /\ (Refused(req[i], 400, "CHALLENGE_ID_MISMATCH")
                \/ Refused(req[i], 404, "CHALLENGE_NOT_FOUND")) =>
                /\ req'[i] = req[i]
                /\ ~HandleCallbackSave(i)
                /\ \A fx \in SideEffects : ~HandleCallbackRespond(i, fx)]_vars

\* one callback was refused for the mismatch and one for the unknown
\* challenge, and both tables are empty
C17_Witness ==
    \E i, j \in DOMAIN req :
        /\ Refused(req[i], 400, "CHALLENGE_ID_MISMATCH")
        /\ Refused(req[j], 404, "CHALLENGE_NOT_FOUND")
        /\ results = EmptyBag /\ webhooks = EmptyBag

---------------------------------------------------------------------------
(* SpecFault: the callback endpoint with side effects that fail *)

MaxFaulty == 2

InitFault ==
    /\ InitPool({}, {"p1"}, 0)
    /\ InitServer({"challenger"}, MaxFaulty)
    /\ retryIn = NoAttempt
    /\ retryOut = "none"

NextFault ==
    \/ \E i \in DOMAIN req, rid \in RequestIds, payload \in CallbackPayloads :
          ArriveCallback(i, "p1", "p1", rid, payload)
    \/ \E i \in DOMAIN req : HMACAuthCheck(i)
    \/ \E i \in DOMAIN req : HMACAuthVerify(i)
    \/ \E i \in DOMAIN req : HandleCallbackSave(i)
    \/ \E i \in DOMAIN req, fx \in SideEffects : HandleCallbackRespond(i, fx)

SpecFault == InitFault /\ [][NextFault]_vars

\* C19: whatever the audit insert, the commitment upload and the vault
\* transaction do, the step of HandleCallback after the committed insert
\* answers 200 with received = true and duplicate = (no row was inserted), and
\* leaves the result rows as they are.
C19_AlwaysAnswered ==
    [][\A i \in DOMAIN req, fx \in SideEffects :
          HandleCallbackRespond(i, fx) =>
             /\ req'[i].pc = "done" /\ req'[i].code = 200
             /\ req'[i].received /\ req'[i].dup = ~req[i].inserted
             /\ results' = results]_vars

---------------------------------------------------------------------------
(* SpecSecret: what the Challenger sends to the Solver *)

MaxSecretReqs == 2

\* PUBLIC_CALLBACK_HOST
PublicCallbackHost == "https://challenger"

\* fmt.Sprintf("%s/callback/%s", s.config.PublicCallbackHost, challengeID), as
\* the parts it is put together from
CallbackURLFor(id) == <<PublicCallbackHost, "callback", id>>

SolveRequest_WithAnswer(id, challenge, t) ==
    [api_version |-> "v2.1", challenge_id |-> id, problem |-> challenge.problem,
     output_spec |-> challenge.validation_rule.answer,
     constraints |-> [timeout_ms |-> 30000, deadline_ts |-> t + ClockSkew],
     callback_url |-> CallbackURLFor(id)]

\* the models.SolveRequest SendChallenge builds at time t; the deadline is 5
\* minutes later, which is the length of the skew window
SolveRequest(id, challenge, t) ==
    [api_version |-> "v2.1", challenge_id |-> id, problem |-> challenge.problem,
     output_spec |-> "text",
     constraints |-> [timeout_ms |-> 30000, deadline_ts |-> t + ClockSkew],
     callback_url |-> CallbackURLFor(id)]

\* Service.SendChallenge up to client.Do
SendChallenge(id) ==
    /\ svc = "challenger"
    /\ id \in KnownChallenges
    /\ SolveRequest(id, Challenges[id], now) \notin sent
    /\ sent' = sent \cup {SolveRequest(id, Challenges[id], now)}
    /\ UNCHANGED <<solverVars, results, webhooks, seen, req, now, svc, retryVars, quit>>

\* challenges with the statement of p1, whose rules differ in kind, params and
\* answer
TwinIds == {"p1", "n1", "u1"}

SecretPayloads == {<<"success", "right">>, <<"success", "42">>, <<"failed", "">>}

InitSecret ==
    /\ InitPool({}, {"p1"}, 0)
    /\ InitServer({"challenger"}, MaxSecretReqs)
    /\ retryIn = NoAttempt
    /\ retryOut = "none"

NextSecret ==
    \/ \E id \in TwinIds : SendChallenge(id)
    \/ \E i \in DOMAIN req, pid \in TwinIds, payload \in SecretPayloads :
          ArriveCallback(i, pid, pid, 1, payload)
    \/ \E i \in DOMAIN req : HMACAuthCheck(i)
    \/ \E i \in DOMAIN req : HMACAuthVerify(i)
    \/ \E i \in DOMAIN req : HandleCallbackSave(i)
    \/ \E i \in DOMAIN req : HandleCallbackRespond(i, NoFault)

SpecSecret == InitSecret /\ [][NextSecret]_vars

\* challenges a and b differ in the validation rule only
Twins(a, b) ==
    /\ a # b
    /\ Challenges[a].problem = Challenges[b].problem
    /\ Challenges[a].validation_rule # Challenges[b].validation_rule

\* message m with every occurrence of the id a replaced by b
Renamed(m, a, b) ==
    [m EXCEPT !.challenge_id = IF @ = a THEN b ELSE @,
              !.callback_url = [k \in DOMAIN @ |-> IF @[k] = a THEN b ELSE @[k]]]

\* the HTTP response to an answered callback
ResponseOf(r) == <<r.code, r.errcode, r.received, r.dup>>

\* C16: the solve request bodies of two challenges that differ in the rule
\* only are equal up to the challenge id, and two callbacks with the same
\* request id, status and answer for two such challenges, each the only
\* callback of its challenge, get the same response.
C16_RuleNeverLeaves ==
    /\ \A m1, m2 \in sent :
          Twins(m1.challenge_id, m2.challenge_id)
              => Renamed(m1, m1.challenge_id, m2.challenge_id) = m2
    /\ \A i, j \in DOMAIN req :
          (/\ req[i].pc = "done" /\ req[j].pc = "done"
           /\ Twins(req[i].pid, req[j].pid)
           /\ req[i].rid = req[j].rid
           /\ req[i].status = req[j].status /\ req[i].answer = req[j].answer
           /\ \A k \in DOMAIN req \ {i, j} :
                 req[k].pc = "new" \/ req[k].pid \notin {req[i].pid, req[j].pid})
          => ResponseOf(req[i]) = ResponseOf(req[j])

\* both solve requests went out, and the same answer was stored as correct for
\* one challenge and as not correct for its twin, with equal responses
C16_Witness ==
    \E i, j \in DOMAIN req :
        /\ req[i].pc = "done" /\ req[j].pc = "done"
        /\ Twins(req[i].pid, req[j].pid)
        /\ req[i].status = "success" /\ req[i].answer = req[j].answer
        /\ req[j].status = "success"
        /\ ResponseOf(req[i]) = ResponseOf(req[j])
        /\ \E r1, r2 \in BagToSet(results) :
              /\ r1.challenge_id = req[i].pid /\ r1.is_correct
              /\ r2.challenge_id = req[j].pid /\ ~r2.is_correct
        /\ \E m1, m2 \in sent :
              m1.challenge_id = req[i].pid /\ m2.challenge_id = req[j].pid

---------------------------------------------------------------------------
(* SpecBackoff: one work item and one worker on a clock in milliseconds *)

\* the constants of the retry policy, in milliseconds and in thousandths
BaseDelay == 500
MaxDelay == 30000
JitterMin == 850
JitterMax == 1150

\* the dispatcher's time.NewTicker(5 * time.Second)
TickerPeriod == 5000

\* no ticker period starts after this time
MaxClock == 5000

\* rand.Float64(), a value of [0, 1) in thousandths
Rand == {0, 999}

calculateBackoffDelay_FromOne(attempt, rnd) ==
    LET exp == BaseDelay * 2^(attempt + 1)
        delay == IF exp > MaxDelay THEN MaxDelay ELSE exp
        jitter == JitterMin + (rnd * (JitterMax - JitterMin)) \div 1000
    IN  (delay * jitter) \div 1000

\* calculateBackoffDelay with rnd for rand.Float64(): min(MaxDelay, BaseDelay *
\* 2^attempt), times a jitter of JitterMin + rnd * (JitterMax - JitterMin),
\* truncated
calculateBackoffDelay(attempt, rnd) ==
    LET exp == BaseDelay * 2^attempt
        delay == IF exp > MaxDelay THEN MaxDelay ELSE exp
        jitter == JitterMin + (rnd * (JitterMax - JitterMin)) \div 1000
    IN  (delay * jitter) \div 1000

\* a pool of one worker and an empty store
InitSingle ==
    /\ InitPool({"w1"}, {"p1"}, MaxTicks)
    /\ InitOther

\* Service.HandleSolve at the time of the clock: ReceivedAt is time.Now()
HandleSolveNow(id) ==
    /\ enrolls < MaxEnrolls
    /\ GetChallenge(pending, id) = NoRow
    /\ pending' = SaveChallenge(pending, PendingChallenge(id, "s1", LocalURL, now))
    /\ enrolls' = enrolls + 1
    /\ UNCHANGED <<jobQueue, wk, ticks, attempts, lost, results, chalVars, retryVars, quit>>

\* d milliseconds pass: every next_retry_time and every sleep comes d closer
Elapse(d) ==
    /\ d > 0
    /\ now' = now + d
    /\ pending' = [i \in Problems |-> [pending[i] EXCEPT !.next_in = IF @ > d THEN @ - d ELSE 0]]
    /\ wk' = [w \in Workers |-> [wk[w] EXCEPT !.sleep = IF @ > d THEN @ - d ELSE 0]]
    /\ UNCHANGED <<jobQueue, enrolls, ticks, attempts, lost, results,
                   webhooks, seen, req, svc, sent, retryVars, quit>>

NextBackoff ==
    \/ \E id \in Problems : HandleSolveNow(id)
    \/ Dispatch
    \/ \E w \in Workers : WorkerTake(w)
    \/ \E w \in Workers : WorkerMark(w)
    \/ \E w \in Workers, a \in Answers : WorkerSolve(w, a)
    \/ \E w \in Workers, r \in Responses :
          sendCallbackWithRetry(w, r, {calculateBackoffDelay(wk[w].attempt, rnd) : rnd \in Rand})
    \/ \E w \in Workers : WorkerWake(w)
    \/ \E d \in {wk[w].sleep : w \in Workers}
                   \cup (IF now < MaxClock THEN {TickerPeriod} ELSE {}) : Elapse(d)

SpecBackoff == InitSingle /\ [][NextBackoff]_vars

\* the largest next_retry_time - received_at the claimed interval allows after
\* k failed attempts, in microseconds: the sum over i = 1..k of
\* min(30 s, 500 ms * 2^(i-1)) * 1.15
RECURSIVE IntervalWidth(_)
IntervalWidth(k) ==
    IF k = 0 THEN 0
    ELSE LET nominal == 500 * 2^(k - 1)
         IN  IntervalWidth(k - 1) + (IF nominal > 30000 THEN 30000 ELSE nominal) * 1150

\* C21: every row in status processing with attempt_count k has its
\* next_retry_time in [received_at, received_at + sum over i = 1..k of
\* min(30 s, 500 ms * 2^(i-1)) * 1.15]; stated at each write of a row, where
\* the next_retry_time written is now + next_in.
C21_NextRetryInInterval ==
    [][\A id \in Problems :
          (/\ now' = now
           /\ pending'[id] # pending[id]
           /\ pending'[id].status = "processing")
          => LET next_retry_time == now + pending'[id].next_in
                 received_at == pending'[id].received
             IN  /\ received_at <= next_retry_time
                 /\ 1000 * (next_retry_time - received_at)
                        <= IntervalWidth(pending'[id].attempt_count)]_vars

---------------------------------------------------------------------------
(* SpecRace: solve requests whose handlers run side by side *)

\* Service.HandleSolve up to GetChallenge: the checks of the decoded request,
\* then the lookup; without a row the handler goes on to build the challenge
HandleSolveGet(i) ==
    /\ i \in DOMAIN req
    /\ svc = "solver"
    /\ req[i].pc = "handler"
    /\ LET r == req[i]
           bad == IF r.api_version # "v2.1" THEN "UNSUPPORTED_VERSION"
                  ELSE IF r.pid = "" THEN "MISSING_CHALLENGE_ID"
                  ELSE IF validateCallbackURL(r.callback, UseNgrok) # ""
                  THEN "INVALID_CALLBACK_URL"
                  ELSE ""
       IN  req' = [req EXCEPT ![i] =
                      IF bad # "" THEN writeError(@, 400, bad)
                      ELSE IF GetChallenge(pending, r.pid) # NoRow THEN writeAccepted(@)
                      ELSE [@ EXCEPT !.pc = "save"]]
    /\ UNCHANGED <<solverVars, results, webhooks, seen, now, svc, sent, retryVars, quit>>

\* Service.HandleSolve from SaveChallenge on: the INSERT fails on the primary
\* key when the row is there by now
HandleSolveSave(i) ==
    /\ i \in DOMAIN req
    /\ req[i].pc = "save"
    /\ LET r == req[i]
       IN  IF pending[r.pid] # NoRow
           THEN /\ req' = [req EXCEPT ![i] = writeError(@, 500, "DB_ERROR")]
                /\ UNCHANGED <<pending, enrolls>>
           ELSE /\ pending' = SaveChallenge(pending,
                                  PendingChallenge(r.pid, r.problem, r.callback, enrolls + 1))
                /\ enrolls' = enrolls + 1
                /\ req' = [req EXCEPT ![i] = writeAccepted([@ EXCEPT !.rcv = enrolls + 1])]
    /\ UNCHANGED <<jobQueue, wk, ticks, attempts, lost, results, webhooks, seen,
                   now, svc, sent, retryVars, quit>>

NextRace ==
    \/ \E i \in DOMAIN req, body \in SolveBodies : ArriveSolve(i, body)
    \/ \E i \in DOMAIN req : HMACAuthCheck(i)
    \/ \E i \in DOMAIN req : HMACAuthVerify(i)
    \/ \E i \in DOMAIN req : HandleSolveGet(i)
    \/ \E i \in DOMAIN req : HandleSolveSave(i)

SpecRace == InitIntake /\ [][NextRace]_vars

\* C22: two valid solve requests with one problem id and nonces of their own,
\* whatever the order of their handlers' steps, are both answered 202 with
\* solver_job_<problem id>, neither with DB_ERROR, and the problem id has its
\* row.
C22_ConcurrentSolvesAccepted ==
    \A i, j \in DOMAIN req :
        (/\ i # j
         /\ req[i].nonce # req[j].nonce
         /\ req[i].pc = "done" /\ SolveValid(req[i])
         /\ req[j].pc = "done" /\ SolveValid(req[j])
         /\ req[j].pid = req[i].pid)
        => /\ req[i].code = 202 /\ req[j].code = 202
           /\ req[i].job = SolverJobID(req[i].pid)
           /\ req[j].job = req[i].job
           /\ "DB_ERROR" \notin {req[i].errcode, req[j].errcode}
           /\ pending[req[i].pid] # NoRow

---------------------------------------------------------------------------
(* Claims about requests and workers that run side by side *)

\* C23: of two requests with one nonce and valid signatures that one service
\* handles at the same time (each arrived before the other was handed to the
\* handler), at most one is handed to the handler.
C23_OneOfTwoPasses ==
    \A i, j \in DOMAIN req :
        (/\ i # j
         /\ req[i].auth = "ok" /\ req[j].auth = "ok"
         /\ req[i].nonce = req[j].nonce
         /\ req[i].sigOK /\ req[j].sigOK
         /\ ~req[i].prior /\ ~req[j].prior)
        => ~(req[i].acceptedAt >= 0 /\ req[j].acceptedAt >= 0)

\* C24: once a worker got a 2xx and deleted the row of an item, no worker
\* calls the evaluator or sends a callback for that item, and no write of a
\* worker brings the row back.
C24_DeliveredOnce ==
    [][/\ \A w \in Workers :
            (\/ \E a \in Answers : WorkerSolve(w, a)
             \/ \E r \in Responses : SendCallbackStep(w, r))
            => pending[wk[w].id] # NoRow
       /\ \A id \in Problems :
            (pending[id] = NoRow /\ ~HandleSolve(id)) => pending'[id] = NoRow]_vars

\* C25: a row in status failed is never returned by GetPendingChallenges or
\* put into the job channel, no worker takes up its item, and no step changes
\* its status to processing or pending.
C25_FailedIsFinal ==
    [][\A id \in Problems :
          pending[id].status = "failed"
          => /\ \A k \in 1..Len(GetPendingChallenges(pending, QueueCap)) :
                    GetPendingChallenges(pending, QueueCap)[k] # id
             /\ Dispatch => \A k \in (Len(jobQueue) + 1)..Len(jobQueue') :
                                jobQueue'[k].id # id
             /\ \A w \in Workers : WorkerMark(w) => wk[w].id # id
             /\ pending'[id].status \notin {"processing", "pending"}]_vars

\* C27: the first write of processChallenge sets status processing and the
\* retry time to now and leaves the stored attempt_count as it is, whatever
\* was written to the row since the dispatcher read it.
C27_MarkKeepsAttemptCount ==
    [][\A w \in Workers :
          (WorkerMark(w) /\ pending[wk[w].id] # NoRow)
          => /\ pending'[wk[w].id].status = "processing"
             /\ pending'[wk[w].id].next_in = 0
             /\ pending'[wk[w].id].attempt_count = pending[wk[w].id].attempt_count]_vars

---------------------------------------------------------------------------
(* SpecRestart: the worker pool of a process started on the store an earlier
   process left behind *)

\* the earlier process stopped between two attempts of p1: the row is as
\* sendCallbackWithRetry wrote it after the k-th failed attempt, k of the
\* budget's attempts were made, the new process has an empty channel and
\* idle workers
InitRestart ==
    /\ \E k \in 1..(MaxRetryAttempts - 1), delay \in 0..DelayTicks :
          /\ pending = UpdateChallengeStatus(
                           SaveChallenge([i \in {"p1"} |-> NoRow],
                                         PendingChallenge("p1", "s1", LocalURL, 1)),
                           "p1", "processing", k, delay)
          /\ attempts = [i \in {"p1"} |-> k]
    /\ jobQueue = <<>>
    /\ quit = Running
    /\ wk = [w \in {"w1"} |-> IdleWorker]
    /\ enrolls = 0
    /\ ticks = MaxTicks
    /\ lost = 0
    /\ results = EmptyBag
    /\ InitOther

SpecRestart == InitRestart /\ [][NextSolver]_vars

\* C26: an item left in status processing by a process that stopped is
\* processed again after the restart, the worker goes on from the stored
\* attempt_count (the send that follows the evaluator call has that index),
\* and the attempts before and after the restart together stay within the
\* budget of MaxRetryAttempts.
C26_ResumesAfterRestart ==
    /\ [](\A id \in Problems : attempts[id] <= MaxRetryAttempts)
    /\ [][\A w \in Workers, a \in Answers :
             (WorkerSolve(w, a) /\ pending[wk[w].id] # NoRow)
             => wk'[w].attempt = pending[wk[w].id].attempt_count]_vars

---------------------------------------------------------------------------
(* SpecOrder: one worker, and a store that can fail the first write of
   processChallenge *)

WorkerMarkFails_GoesOn(w) ==
    /\ wk[w].pc = "mark"
    /\ wk' = [wk EXCEPT ![w].pc = "solve"]
    /\ UNCHANGED <<pending, jobQueue, enrolls, ticks, attempts, lost, results,
                   chalVars, retryVars, quit>>

\* processChallenge when UpdateChallengeStatus returns an error: the error is
\* logged and processChallenge returns
WorkerMarkFails(w) ==
    /\ wk[w].pc = "mark"
    /\ wk' = [wk EXCEPT ![w] = IdleWorker]
    /\ UNCHANGED <<pending, jobQueue, enrolls, ticks, attempts, lost, results,
                   chalVars, retryVars, quit>>

NextOrder ==
    \/ NextSolver
    \/ \E w \in Workers : WorkerMarkFails(w)

SpecOrder == InitSingle /\ [][NextOrder]_vars

\* C28: in one processing of an item whose row exists (the row of the item's
\* only enrolment), the evaluator is called on a row this processing has set
\* to processing with retry time now; every
\* send after the first finds the row as the status update after the send
\* before left it; the row is deleted or set to failed only by the step of the
\* last send, which ends the processing; and when the first status update
\* fails the worker is idle again with the row, the result store and the
\* count of sends untouched.
C28_OrderOfEffects ==
    [][\A w \in Workers, id \in Problems :
          /\ ((\E a \in Answers : WorkerSolve(w, a))
                  /\ wk[w].id = id /\ pending[id] # NoRow /\ enrolls <= 1)
              => /\ pending[id].status = "processing"
                 /\ pending[id].next_in = 0
                 /\ pending[id].attempt_count = wk[w].AttemptCount
          /\ ((\E r \in Responses : SendCallbackStep(w, r))
                  /\ wk[w].id = id /\ pending[id] # NoRow /\ enrolls <= 1
                  /\ wk[w].attempt > 0)
              => /\ pending[id].status = "processing"
                 /\ pending[id].attempt_count = wk[w].attempt
          /\ (pending[id] # NoRow /\ pending'[id].status \in {"absent", "failed"}
                  /\ pending'[id].status # pending[id].status)
              => /\ \E r \in Responses : SendCallbackStep(w, r)
                 /\ wk[w].id = id
                 /\ wk'[w] = IdleWorker
          /\ attempts'[id] # attempts[id]
              => (wk[w].pc = "send" /\ wk[w].id = id) \/ HandleSolve(id)
          /\ WorkerMarkFails(w)
              => /\ wk'[w] = IdleWorker
                 /\ pending' = pending
                 /\ results' = results
                 /\ attempts' = attempts]_vars

\* the copy of the first tick was taken, the first status update failed, and
\* nothing else happened to the item
C28_Witness ==
    /\ enrolls = 1
    /\ ticks = MaxTicks - 1
    /\ jobQueue = <<>>
    /\ \A w \in Workers : wk[w] = IdleWorker
    /\ pending["p1"].status = "pending"
    /\ attempts["p1"] = 0

---------------------------------------------------------------------------
(* SpecDue: one call of GetPendingChallenges on a table of three rows *)

\* the largest LIMIT and the latest received_at of the tables
MaxLimit == 3
MaxReceived == 2

\* the rows the Solver writes: as HandleSolve stores them, as processChallenge
\* and sendCallbackWithRetry update them (attempt_count and next_retry_time
\* stand for all their values: passed or still ahead), and as a failed
\* delivery leaves them
StoredRows(id) ==
    LET rows == {SaveChallenge([i \in {id} |-> NoRow],
                               PendingChallenge(id, "s1", LocalURL, rcv))[id] :
                    rcv \in 1..MaxReceived}
    IN  {NoRow} \cup rows
        \cup {[r EXCEPT !.status = "processing", !.attempt_count = 1, !.next_in = n] :
                  r \in rows, n \in 0..DelayTicks}
        \cup {[r EXCEPT !.status = "failed", !.attempt_count = MaxRetryAttempts] : r \in rows}

InitDue ==
    /\ LET ids == ProblemIds \cup {"p3"}
       IN  /\ pending \in {t \in [ids -> UNION {StoredRows(id) : id \in ids}] :
                               \A id \in ids : t[id] \in StoredRows(id)}
           /\ attempts = [i \in ids |-> 0]
    /\ jobQueue = <<>>
    /\ quit = Running
    /\ wk = [w \in {"w1"} |-> IdleWorker]
    /\ enrolls = 0
    /\ ticks = 0
    /\ lost = 0
    /\ results = EmptyBag
    /\ InitServer({"solver"}, 0)
    /\ retryIn \in [limit : 0..MaxLimit, called : {FALSE}]
    /\ retryOut = "none"

\* challenges, err := wp.service.db.GetPendingChallenges(limit)
GetPendingCall ==
    /\ ~retryIn.called
    /\ retryIn' = [retryIn EXCEPT !.called = TRUE]
    /\ retryOut' = GetPendingChallenges(pending, retryIn.limit)
    /\ UNCHANGED <<solverVars, results, chalVars, quit>>

SpecDue == InitDue /\ [][GetPendingCall]_vars

\* the rows the claim calls due: status pending, or processing with a retry
\* time that is not ahead
ClaimedDue(tbl) ==
    {i \in DOMAIN tbl : tbl[i].status = "pending"
                         \/ (tbl[i].status = "processing" /\ tbl[i].next_in <= 0)}

---------------------------------------------------------------------------
(* SpecNonce: requests with one nonce, each with one flaw of the Authorization
   header or none *)

\* a request for problem p1 with nonce 1 (no nonce without a header that
\* parses) and flaw for what its sender got wrong: nothing ("none"), no
\* header, a header that does not parse, a key id the server does not hold, a
\* timestamp that is no number, one too old, one too far ahead, a wrong
\* signature; after is the set of requests answered before it was made
ArriveFlawed(i, flaw) ==
    /\ Arrives(i, [NewReq EXCEPT
                      !.auth = IF flaw \in {"missing", "malformed"} THEN flaw ELSE "ok",
                      !.nonce = IF flaw \in {"missing", "malformed"} THEN 0 ELSE 1,
                      !.keyKnown = (flaw # "unknown key"),
                      !.tsJunk = (flaw = "junk timestamp"),
                      !.ts = IF flaw = "stale" THEN now - ClockSkew - 1
                             ELSE IF flaw = "ahead" THEN now + ClockSkew + 1
                             ELSE now,
                      !.sigOK = (flaw # "signature"),
                      !.pid = "p1", !.bodyPid = "p1", !.rid = i,
                      !.status = "success", !.answer = "right",
                      !.after = {k \in DOMAIN req : req[k].pc = "done"}])
    /\ UNCHANGED <<solverVars, results, webhooks, seen, now, svc, sent, retryVars, quit>>

NextNonce ==
    \/ \E i \in DOMAIN req,
          flaw \in {"none", "missing", "malformed", "unknown key", "junk timestamp",
                    "stale", "ahead", "signature"} : ArriveFlawed(i, flaw)
    \/ \E i \in DOMAIN req : HMACAuthCheck(i)
    \/ \E i \in DOMAIN req : HMACAuthVerify(i)
    \/ \E i \in DOMAIN req : HandleCallbackSave(i)
    \/ \E i \in DOMAIN req : HandleCallbackRespond(i, NoFault)
    \/ \E i \in DOMAIN req : HandleSolveRequest(i)

SpecNonce == InitAuth /\ [][NextNonce]_vars

\* the middleware answered request r itself
Turned(r) == r.pc = "done" /\ r.acceptedAt < 0

\* C30: a step of the middleware that rejects a request leaves seen_nonces
\* as it is; every nonce in seen_nonces is the nonce of a request that passed
\* signature verification; and a correctly signed request is turned away
\* only when another request with its nonce passed verification, never
\* because of a rejected one.
C30_OnlyVerifiedRecorded ==
    /\ [][\A i \in DOMAIN req :
             ((HMACAuthCheck(i) \/ HMACAuthVerify(i)) /\ Turned(req'[i]))
             => seen' = seen]_vars
    /\ [](\A n \in DOMAIN seen : AcceptedWith(n) # {})
    /\ [](\A j \in DOMAIN req :
             (/\ Turned(req[j])
              /\ req[j].auth = "ok"
              /\ VerifySignature(req[j], now) = "")
             => AcceptedWith(req[j].nonce) \ {j} # {})

\* a request with a wrong signature was rejected, and a correctly signed one
\* with the same nonce that came after it was handed to the handler
C30_Witness ==
    \E i, j \in DOMAIN req :
        /\ i < j
        /\ req[i].nonce = req[j].nonce
        /\ ~req[i].sigOK /\ Rejected(req[i], "INVALID_SIGNATURE")
        /\ i \in req[j].after
        /\ req[j].acceptedAt >= 0 /\ req[j].recorded
        /\ req[j].nonce \in DOMAIN seen

---------------------------------------------------------------------------
(* Claims about errors of the stores *)

\* C31: when saveNonce returns an error for a request that passed the replay
\* check and the signature verification, the same step hands the request to
\* the handler and writes no response.
C31_SaveNonceBestEffort ==
    [][\A i \in DOMAIN req :
          (/\ HMACAuthVerify(i)
           /\ VerifySignature(req[i], now) = ""
           /\ saveNonce(svc, seen, req[i].nonce, now).err)
          => /\ req'[i].pc = "handler"
             /\ req'[i].acceptedAt = now
             /\ req'[i].code = 0 /\ req'[i].errcode = ""]_vars

\* the Solver could not record the nonce of a request (another request had
\* recorded it meanwhile), and its handler answered the request 202
C31_Witness ==
    \E i \in DOMAIN req :
        /\ svc = "solver"
        /\ req[i].acceptedAt >= 0 /\ ~req[i].recorded
        /\ req[i].pc = "done" /\ req[i].code = 202

---------------------------------------------------------------------------
(* SpecSkewZero: SpecAuth for a Solver configured with CLOCK_SKEW_SECONDS=0 *)

\* hmac.go DefaultClockSkew, 300 s: the unit of the clock
DefaultClockSkew == 1

\* NewHMACAuth(secrets, clockSkew): the clockSkew the verifier works with
NewHMACAuth(clockSkew) == IF clockSkew = 0 THEN DefaultClockSkew ELSE clockSkew

\* the verifier is NewHMACAuth(cfg.GetClockSkew()) with GetClockSkew() = 0
InitSkewZero ==
    /\ InitAuth
    /\ NewHMACAuth(0) = ClockSkew

NextSkewZero ==
    \/ \E i \in DOMAIN req, auth \in {"ok", "missing", "malformed"},
          nonce \in NonceValues \cup {0}, sigOK \in BOOLEAN, fresh \in BOOLEAN :
          ArriveAuth(i, auth, nonce, sigOK, fresh)
    \/ \E i \in DOMAIN req : HMACAuthCheck(i)
    \/ \E i \in DOMAIN req : HMACAuthVerify(i)
    \/ \E i \in DOMAIN req : HandleCallbackSave(i)
    \/ \E i \in DOMAIN req : HandleCallbackRespond(i, NoFault)
    \/ \E i \in DOMAIN req : HandleSolveRequest(i)
    \/ ClockTick
    \/ cleanupNoncesTick(0)

SpecSkewZero == InitSkewZero /\ [][NextSkewZero]_vars

\* C32: the cleanup deletes the entry of a nonce only when no request that
\* was accepted with it passes the timestamp check any more, and a request
\* with the nonce, timestamp and signature of an accepted one that arrives
\* after that one was accepted is never accepted.
C32_PruningKeepsWindowShut ==
    /\ [][\A n \in DOMAIN seen \ DOMAIN seen' :
             \A i \in AcceptedWith(n) : VerifySignature(req[i], now) # ""]_vars
    /\ [](\A i, j \in DOMAIN req :
             (/\ i # j
              /\ req[i].acceptedAt >= 0
              /\ req[j].prior
              /\ req[j].nonce = req[i].nonce
              /\ req[j].ts = req[i].ts
              /\ req[j].sigOK)
             => req[j].acceptedAt < 0)

---------------------------------------------------------------------------
(* SpecLookup: the callback endpoint over a challenges table whose reads can fail *)

\* Service.HandleCallback for a body that decodes and names the challenge of
\* its path, when ChallengerDB.GetChallenge returns an error that is not
\* sql.ErrNoRows (the query fails, the stored validation rule does not
\* unmarshal): the handler has one branch for every error of GetChallenge
HandleCallbackLookupFails(i) ==
    /\ i \in DOMAIN req
    /\ svc = "challenger"
    /\ req[i].pc = "handler"
    /\ req[i].bodyPid = req[i].pid
    /\ req' = [req EXCEPT ![i] = writeError(@, 404, "CHALLENGE_NOT_FOUND")]
    /\ UNCHANGED <<solverVars, results, webhooks, seen, now, svc, sent, retryVars, quit>>

NextLookup ==
    \/ \E i \in DOMAIN req, pid \in CallbackIds, rid \in RequestIds,
          payload \in CallbackPayloads : ArriveCallback(i, pid, pid, rid, payload)
    \/ \E i \in DOMAIN req : HMACAuthCheck(i)
    \/ \E i \in DOMAIN req : HMACAuthVerify(i)
    \/ \E i \in DOMAIN req : HandleCallbackSave(i)
    \/ \E i \in DOMAIN req : HandleCallbackLookupFails(i)
    \/ \E i \in DOMAIN req : HandleCallbackRespond(i, NoFault)

SpecLookup == InitChal /\ [][NextLookup]_vars

\* C33: a store error while the callback handler looks the challenge up is
\* answered with 500 DB_ERROR, and a callback is answered with 404
\* CHALLENGE_NOT_FOUND only when its challenge is not in the store.
C33_LookupErrorIs500 ==
    /\ [][\A i \in DOMAIN req :
             HandleCallbackLookupFails(i) => Refused(req'[i], 500, "DB_ERROR")]_vars
    /\ [](\A i \in DOMAIN req :
             Refused(req[i], 404, "CHALLENGE_NOT_FOUND") => req[i].pid \notin KnownChallenges)

---------------------------------------------------------------------------
(* Claims about an item whose evaluation fails *)

\* C34: a worker whose solveChallenge returned an error sends a callback with
\* status "failed", error code SOLVER_ERROR and no answer; the attempt is
\* judged as any other (success ends the loop, a retryable failure before the
\* sixth attempt sleeps, any other failure ends it); on a 2xx answer the row of
\* the item is deleted and not marked failed; every result row the Challenger
\* inserts for the callback has status "failed" and is_correct = FALSE.
C34_SolverErrorDelivered ==
    [][\A w \in Workers, r \in Responses :
          (SendCallbackStep(w, r) /\ wk[w].answer = "") =>
             LET id == wk[w].id
                 callbackReq == CallbackRequest(id, wk[w].answer)
                 outcome == AttemptOutcome(wk[w].attempt, r.code, r.err)
             IN  /\ callbackReq.Status = "failed"
                 /\ callbackReq.ErrorCode = "SOLVER_ERROR"
                 /\ callbackReq.Answer = ""
                 /\ (r.handled /\ id \in KnownChallenges) => results' # results
                 /\ \A row \in BagToSet(results') \ BagToSet(results) :
                        /\ row.challenge_id = id /\ row.status = "failed"
                        /\ row.received_answer = "" /\ ~row.is_correct
                 /\ outcome = "success" <=> (~r.err /\ r.code >= 200 /\ r.code < 300)
                 /\ outcome = "success" =>
                        pending'[id] = NoRow /\ wk'[w] = IdleWorker
                 /\ outcome = "retry" =>
                        /\ wk'[w].pc = "sleep" /\ wk'[w].sleep \in 1..DelayTicks
                        /\ pending[id] # NoRow =>
                              /\ pending'[id].status = "processing"
                              /\ pending'[id].attempt_count = wk[w].attempt + 1
                 /\ outcome = "failed" => wk'[w] = IdleWorker]_vars

\* the failed callback of an item was stored by the Challenger, with
\* is_correct = FALSE, and the item's row is gone
C34_Witness ==
    /\ enrolls = 1 /\ pending["p1"] = NoRow
    /\ results # EmptyBag
    /\ \A row \in BagToSet(results) : row.status = "failed" /\ ~row.is_correct

---------------------------------------------------------------------------
(* SpecStop: SpecSolver with the shutdown of the worker pool *)

\* WorkerPool.Stop: close(wp.quit) and close(wp.workerQuit[i]) of every worker;
\* it returns without waiting for a goroutine
Stop ==
    /\ ~quit.closed
    /\ quit' = [closed |-> TRUE, queued |-> Len(jobQueue)]
    /\ UNCHANGED <<solverVars, results, chalVars, retryVars>>

\* WorkerPool.dispatcher: case <-wp.quit (select takes any case that is ready,
\* so a tick that is due at the same time can still be taken first)
DispatcherQuit ==
    /\ quit.closed
    /\ ticks # 0
    /\ ticks' = 0
    /\ UNCHANGED <<pending, jobQueue, wk, enrolls, attempts, lost, results,
                   chalVars, retryVars, quit>>

\* WorkerPool.worker: case <-quit, return. The select of the loop has the two
\* cases <-quit and <-wp.jobQueue and takes any one that is ready
WorkerQuit(w) ==
    /\ quit.closed
    /\ wk[w].pc = "idle"
    /\ wk' = [wk EXCEPT ![w].pc = "stopped"]
    /\ UNCHANGED <<pending, jobQueue, enrolls, ticks, attempts, lost, results,
                   chalVars, retryVars, quit>>

NextStop ==
    \/ NextSolver
    \/ Stop
    \/ DispatcherQuit
    \/ \E w \in Workers : WorkerQuit(w)

SpecStop == InitSolver /\ [][NextStop]_vars

\* C35: once Stop was called and every worker has returned, none of the items
\* that were in the job channel when Stop was called is still in it: the
\* workers received each of them before they returned.
C35_WorkersDrainChannel ==
    (quit.closed /\ \A w \in Workers : wk[w].pc = "stopped") => quit.queued = 0

---------------------------------------------------------------------------
(* Claims about the delay between two attempts *)

\* C36: after the k-th failed attempt that can be retried, k = 1..5, the
\* worker sleeps d milliseconds with 0.85 * b <= d <= 1.15 * b, where b =
\* min(30 s, 500 ms * 2^(k-1)) is 500, 1000, 2000, 4000, 8000; the
\* next_retry_time it writes to the row is the time of that step plus d; a
\* failure of the 6th attempt ends the loop without a sleep.
C36_BackoffDelays ==
    [][\A w \in Workers, r \in Responses :
          (sendCallbackWithRetry(w, r, {calculateBackoffDelay(wk[w].attempt, rnd) : rnd \in Rand})
             /\ ~Is2xx(r) /\ shouldRetry(r.code, r.err))
          => LET k == wk[w].attempt + 1
                 nominal == 500 * 2^(k - 1)
                 b == IF nominal > 30000 THEN 30000 ELSE nominal
                 d == wk'[w].sleep
             IN  IF k <= 5
                 THEN /\ b \in {500, 1000, 2000, 4000, 8000}
                      /\ wk'[w].pc = "sleep"
                      /\ 85 * b <= 100 * d /\ 100 * d <= 115 * b
                      /\ pending[wk[w].id] # NoRow => pending'[wk[w].id].next_in = d
                 ELSE wk'[w].pc = "idle" /\ wk'[w].sleep = 0]_vars

\* the worker sleeps after its fifth failed attempt, between 6800 and 9200
\* ms, and the row holds the same delay
C36_Witness ==
    /\ wk["w1"].pc = "sleep" /\ wk["w1"].attempt = 4
    /\ wk["w1"].sleep \in 6800..9200
    /\ pending["p1"].status = "processing" /\ pending["p1"].attempt_count = 5
    /\ pending["p1"].next_in = wk["w1"].sleep

---------------------------------------------------------------------------
(* SpecAgain: solve requests for one problem, before and after its delivery *)

\* solve requests the Solver receives in a run
MaxAgainReqs == 2

InitAgain ==
    /\ InitPool({"w1"}, {"p1"}, MaxTicks)
    /\ InitServer({"solver"}, MaxAgainReqs)
    /\ retryIn = NoAttempt
    /\ retryOut = "none"

NextAgain ==
    \/ \E i \in DOMAIN req : ArriveSolve(i, GoodSolveBody)
    \/ \E i \in DOMAIN req : HMACAuthCheck(i)
    \/ \E i \in DOMAIN req : HMACAuthVerify(i)
    \/ \E i \in DOMAIN req : HandleSolveRequest(i)
    \/ Dispatch
    \/ WorkerStep("w1")
    \/ Tick

SpecAgain == InitAgain /\ [][NextAgain]_vars

\* the row of id was deleted: a callback for it was answered 2xx
Delivered(id) == enrolls >= 1 /\ pending[id] = NoRow

\* C37: a solve request for a problem whose work item was delivered and
\* deleted is answered 202 with the job id of that item, and enrols no work
\* item: there is nothing for a worker to solve and deliver again.
C37_AcceptedOnceDelivered ==
    [][\A i \in DOMAIN req :
          (HandleSolveRequest(i) /\ Delivered(req[i].pid))
          => /\ req'[i].pc = "done" /\ req'[i].code = 202
             /\ req'[i].job = SolverJobID(req[i].pid)
             /\ pending'[req[i].pid] = NoRow
             /\ enrolls' = enrolls]_vars

---------------------------------------------------------------------------
(* Claims about the fields of a row *)

---------------------------------------------------------------------------
(* SpecURL: solve intake over callback URLs, in either USE_NGROK mode *)

RECURSIVE Pad(_)
\* a path of n characters
Pad(n) ==
    IF n = 0 THEN ""
    ELSE IF n % 2 = 0 THEN LET h == Pad(n \div 2) IN h \o h
    ELSE "a" \o Pad(n - 1)

\* the callback URLs of the solve requests: three schemes, hosts that are or
\* contain the names validateCallbackURL looks for, with and without a port,
\* and a path that is empty, short, or too long; and the empty URL
CallbackURLs ==
    {NoURL} \cup
    [scheme : {"http", "https", "ftp"},
     host : {a \o name \o b : a \in HostPrefixes, b \in HostSuffixes,
             name \in {"localhost", "127.0.0.1", "ngrok.io", "ngrok-free.app", "example.com"}},
     rest : {"", "/callback/p1", Pad(MaxCallbackURLLen)}]

\* retryIn holds the configuration of the service
InitURL ==
    /\ InitPool({}, {"p1"}, 0)
    /\ InitServer({"solver"}, 1)
    /\ retryIn \in [UseNgrok : BOOLEAN]
    /\ retryOut = "none"

NextURL ==
    \/ \E i \in DOMAIN req, u \in CallbackURLs :
          ArriveSolve(i, [GoodSolveBody EXCEPT !.callback_url = u])
    \/ \E i \in DOMAIN req : HMACAuthCheck(i)
    \/ \E i \in DOMAIN req : HMACAuthVerify(i)
    \/ \E i \in DOMAIN req : HandleSolveConfigured(i, retryIn.UseNgrok)

SpecURL == InitURL /\ [][NextURL]_vars

\* C39: HandleSolve answers a solve request 400 INVALID_CALLBACK_URL and
\* enrols nothing exactly when its callback URL is empty, longer than 2048
\* characters, or of a scheme the mode does not allow; with USE_NGROK the
\* scheme allowed is https, whatever the host; without it https, and http
\* when the host is localhost or 127.0.0.1, alone or followed by a port.
C39_CallbackURLRule ==
    [][\A i \in DOMAIN req :
          HandleSolveConfigured(i, retryIn.UseNgrok) =>
             LET u == req[i].callback
                 local == u.host \in {name \o port : name \in {"localhost", "127.0.0.1"},
                                                     port \in {"", ":8080"}}
                 allowed == /\ u # NoURL
                            /\ URLLen(u) <= 2048
                            /\ IF retryIn.UseNgrok THEN u.scheme = "https"
                               ELSE u.scheme = "https" \/ (u.scheme = "http" /\ local)
             IN  IF allowed
                 THEN req'[i].code = 202 /\ pending'[req[i].pid] # NoRow
                 ELSE /\ Refused(req'[i], 400, "INVALID_CALLBACK_URL")
                      /\ pending' = pending /\ enrolls' = enrolls]_vars

=============================================================================
